---- MODULE Spec2Model ----
(***************************************************************************)
(* Pa11y Dashboard without MongoDB: the in-memory webservice (ephemeral    *)
(* store), the IndexedDB persistence layer (durable store) and the client  *)
(* scripts that reconcile the two on page load.                            *)
(*                                                                         *)
(* JavaScript objects are functions whose DOMAIN is the set of defined     *)
(* properties; a property holding undefined is an absent key.  Texts that  *)
(* the code trims, simplifies or strips are sequences of tokens.           *)
(***************************************************************************)
EXTENDS Integers, Sequences, FiniteSets, TLC

\* number of ids nanoid() hands out, number of runs the clock allows, and the
\* longest issue list the engine returns
MaxTasks == 2
MaxRuns == 2
MaxIssues == 2

TaskIds == 1..MaxTasks
Types == {"error", "warning", "notice"}

----------------------------------------------------------------------------
(* JavaScript helpers *)

Has(o, k) == k \in DOMAIN o

\* Object.assign({}, a, b)
Assign(a, b) == [k \in (DOMAIN a) \cup (DOMAIN b) |-> IF k \in DOMAIN b THEN b[k] ELSE a[k]]

\* obj without property k
Without(o, k) == [x \in (DOMAIN o) \ {k} |-> o[x]]

\* Map.set / Map.delete, IDBObjectStore.put / delete by key
Put(m, k, v) == [x \in (DOMAIN m) \cup {k} |-> IF x = k THEN v ELSE m[x]]

Empty == [x \in {} |-> 0]

RECURSIVE TrimLeft(_)
TrimLeft(s) == IF s # <<>> /\ Head(s) = " " THEN TrimLeft(Tail(s)) ELSE s

RECURSIVE TrimRight(_)
TrimRight(s) == IF s # <<>> /\ s[Len(s)] = " " THEN TrimRight(SubSeq(s, 1, Len(s) - 1)) ELSE s

\* String.prototype.trim
Trim(s) == TrimRight(TrimLeft(s))

\* url.replace(/^https?:\/\//i, '').replace(/\/$/, '')
simplifyUrl(url) ==
    LET a == IF url # <<>> /\ Head(url) \in {"http://", "https://"} THEN Tail(url) ELSE url
    IN  IF a # <<>> /\ a[Len(a)] = "/" THEN SubSeq(a, 1, Len(a) - 1) ELSE a

\* '(' + standard + ')' as the templates and the synthetic cards print it
Parens(std) == <<"(", std, ")">>

\* if the text starts with '(' and ends with ')', slice(1, -1)
StripParens(text) ==
    IF Len(text) >= 1 /\ text[1] = "(" /\ text[Len(text)] = ")"
    THEN IF Len(text) = 3 THEN text[2] ELSE ""
    ELSE IF Len(text) = 1 THEN text[1] ELSE ""

\* an ISO timestamp of the clock tick t, and the DD MMM YYYY rendering of it
Iso(t) == <<"iso", t>>
formatDate(d) == <<"dmy", d[2] \div 2>>

----------------------------------------------------------------------------
(* The engine: pa11y(url, options) resolves with {issues: [...]} or rejects *)

RECURSIVE SeqsUpTo(_, _)
SeqsUpTo(S, n) ==
    IF n = 0 THEN {<<>>}
    ELSE LET shorter == SeqsUpTo(S, n - 1)
         IN  shorter \cup {Append(s, x) : s \in {q \in shorter : Len(q) = n - 1}, x \in S}

Issue(t) == [code |-> "c1", type |-> t, message |-> "m", context |-> "x", selector |-> "s"]

IssueLists == {[i \in 1..Len(ts) |-> Issue(ts[i])] : ts \in SeqsUpTo(Types, MaxIssues)}

\* pa11yResult objects: with an issues array, or without the property
EngineResults == {[issues |-> l] : l \in IssueLists} \cup {Empty}

\* the engine results the runs of the dashboard model draw from: two errors and
\* a warning, and no issue at all
EngineSamples == {[issues |-> <<Issue("error"), Issue("error"), Issue("warning")>>],
                  [issues |-> <<>>]}

----------------------------------------------------------------------------
VARIABLES
    tasks,       \* in-memory webservice: Map task id -> task object
    results,     \* in-memory webservice: Map task id -> array of results
    srvRuns,     \* in-memory runTask calls awaiting pa11y()
    durTasks,    \* IndexedDB object store 'tasks', keyed by id
    durResults,  \* IndexedDB object store 'results', keyed by id
    page,        \* the document the browser shows: its URL and rendered DOM
    sync,        \* syncFromDOM of the list page: per-task promise states
    hist,        \* history display ready handler of the detail page
    crun,        \* client runTask call in flight
    clock,       \* ticks of Date.now(); also numbers the ids nanoid/randomUUID return
    used,        \* task ids nanoid() has handed out
    removed,     \* task ids the user deleted through the delete page
    reply,       \* what the last call of the in-memory webservice handed its callback
    port,        \* export and import: the downloaded file, the import under way, the alert
    listed,      \* the array the last results call of the webservice handed its callback
    api          \* the POST /api/run requests the server has received

vars == <<tasks, results, srvRuns, durTasks, durResults, page, sync, hist, crun, clock, used, removed, reply, port, listed, api>>

----------------------------------------------------------------------------
(* In-memory webservice *)

\* bodies POSTed to the new-task form
NewBodies == {
    [name |-> <<"Home", " ">>, url |-> <<"https://", "a.com", "/">>,
     ignore |-> <<"r1">>, timeout |-> "500", wait |-> ""],
    [url |-> <<"http://", "b.org">>, standard |-> "WCAG2A"] }

\* bodies of tasks.create beyond those: an empty name, an empty url, and a
\* standard of the user's choice
CreateBodies == NewBodies \cup {
    [name |-> <<>>, url |-> <<"https://", "a.com", "/">>],
    [name |-> <<"Shop">>, url |-> <<>>, standard |-> "WCAG2A"],
    [name |-> <<"Shop">>, url |-> <<"http://", "b.org">>, standard |-> "WCAG2AAA"] }

\* body[k] with no default
NoDefault(o, k, default) == IF Has(o, k) THEN o[k] ELSE ""

\* body[k] || default
OrElse(o, k, default) == IF Has(o, k) /\ o[k] # "" THEN o[k] ELSE default

\* the properties of names whose value in body is truthy
TruthyProps(body, names) == {k \in names \cap DOMAIN body : body[k] # ""}

\* the task object tasks.create builds for a valid body
NewTask(id, body) ==
    LET opt == TruthyProps(body, {"timeout", "wait", "username", "password", "hideElements"})
                   \cup ({"headers"} \cap DOMAIN body)
    IN  Assign([k \in opt |-> body[k]],
               [id |-> id, name |-> body.name, url |-> body.url,
                standard |-> OrElse(body, "standard", "WCAG2AA"),
                ignore |-> IF Has(body, "ignore") THEN body.ignore ELSE <<>>,
                actions |-> IF Has(body, "actions") THEN body.actions ELSE <<>>])

Number(s) == CASE s = "500" -> 500 [] s = "0" -> 0 [] OTHER -> -1

taskToPa11yOptions(task) ==
    LET strs == TruthyProps(task, {"standard", "username", "password", "hideElements"})
        nums == TruthyProps(task, {"timeout", "wait"})
        arrs == {k \in {"actions", "ignore"} \cap DOMAIN task : task[k] # <<>>}
        objs == {"headers"} \cap DOMAIN task
    IN  [k \in strs \cup nums \cup arrs \cup objs |->
            IF k \in nums THEN Number(task[k]) ELSE task[k]]

\* the tally after issues.forEach: count[issue.type]++ when count has that key
RECURSIVE Tally(_, _)
Tally(issues, count) ==
    IF issues = <<>> THEN count
    ELSE LET t == Head(issues).type
         IN  Tally(Tail(issues), IF t \in DOMAIN count THEN [count EXCEPT ![t] = @ + 1] ELSE count)

ZeroCount == [t \in Types |-> 0]

transformResult(taskId, task, pa11yResult, now) ==
    LET issues == IF Has(pa11yResult, "issues") THEN pa11yResult.issues ELSE <<>>
        messages == [i \in DOMAIN issues |->
                        [code |-> issues[i].code, type |-> issues[i].type,
                         message |-> issues[i].message, context |-> issues[i].context,
                         selector |-> issues[i].selector]]
    IN  [id |-> <<"s", now>>, task |-> taskId, url |-> task.url, name |-> task.name,
         standard |-> task.standard, date |-> Iso(now),
         count |-> Tally(issues, ZeroCount),
         results |-> messages,
         ignore |-> IF Has(task, "ignore") THEN task.ignore ELSE <<>>]

InFlight == Len(srvRuns) + (IF crun.pc \in {"idle", "failed", "notfound"} THEN 0 ELSE 1)

\* tasks.create(body, callback)
Create(body) ==
    /\ IF ~Has(body, "url") \/ ~Has(body, "name") \/ body.url = <<>> \/ body.name = <<>>
       THEN /\ UNCHANGED <<tasks, results, used>>
            /\ reply' = "Missing required fields"
       ELSE LET id == Cardinality(used) + 1
            IN  /\ id \in TaskIds
                /\ tasks' = Put(tasks, id, NewTask(id, body))
                /\ results' = Put(results, id, <<>>)
                /\ used' = used \cup {id}
                /\ reply' = "ok"
    /\ UNCHANGED <<srvRuns, durTasks, durResults, page, sync, hist, crun, clock, removed, port, listed, api>>

\* task(id).run(callback): up to the await of pa11y()
SrvRunStart(id) ==
    /\ InFlight + clock < MaxRuns
    /\ IF id \notin DOMAIN tasks
       THEN /\ UNCHANGED srvRuns
            /\ reply' = "Task not found"
       ELSE /\ srvRuns' = Append(srvRuns, [task |-> id, url |-> tasks[id].url,
                                           options |-> taskToPa11yOptions(tasks[id]),
                                           obj |-> tasks[id]])
            /\ reply' = reply
    /\ UNCHANGED <<tasks, results, durTasks, durResults, page, sync, hist, crun, clock, used, removed, port, listed, api>>

RemoveAt(s, i) == [j \in 1..(Len(s) - 1) |-> IF j < i THEN s[j] ELSE s[j + 1]]

\* the task object a run holds: the live entry of the Map, or the detached
\* object as it was when the entry was deleted
RunObj(r) == IF r.task \in DOMAIN tasks THEN tasks[r.task] ELSE r.obj

\* runTask after pa11y() resolved with res
SrvRunOk(i, res) ==
    /\ i \in 1..Len(srvRuns)
    /\ LET r == srvRuns[i]
           result == transformResult(r.task, RunObj(r), res, clock + 1)
       IN  /\ srvRuns' = RemoveAt(srvRuns, i)
           /\ clock' = clock + 1
           /\ IF r.task \in DOMAIN results
              THEN /\ results' = [results EXCEPT ![r.task] = Append(@, result)]
                   /\ tasks' = [tasks EXCEPT ![r.task] = Assign(@, [last_result |-> result])]
                   /\ reply' = "ok"
              ELSE \* results.get(task.id) is undefined: list.push throws
                   /\ UNCHANGED <<tasks, results>>
                   /\ reply' = "TypeError"
    /\ UNCHANGED <<durTasks, durResults, page, sync, hist, crun, used, removed, port, listed, api>>

\* the catch of runTask dropping the last_result of the task
SrvRunFailClears(i) ==
    /\ i \in 1..Len(srvRuns)
    /\ srvRuns' = RemoveAt(srvRuns, i)
    /\ tasks' = [t \in DOMAIN tasks |->
                    IF t = srvRuns[i].task THEN Without(tasks[t], "last_result") ELSE tasks[t]]
    /\ reply' = "EngineError"
    /\ UNCHANGED <<results, durTasks, durResults, page, sync, hist, crun, clock, used, removed, port, listed, api>>

\* runTask after pa11y() rejected
SrvRunFail(i) ==
    /\ i \in 1..Len(srvRuns)
    /\ srvRuns' = RemoveAt(srvRuns, i)
    /\ reply' = "EngineError"
    /\ UNCHANGED <<tasks, results, durTasks, durResults, page, sync, hist, crun, clock, used, removed, port, listed, api>>

\* the node process is restarted: createLocalWebservice() builds empty Maps
Restart ==
    /\ tasks' = Empty
    /\ results' = Empty
    /\ srvRuns' = <<>>
    /\ reply' = ""
    /\ UNCHANGED <<durTasks, durResults, page, sync, hist, crun, clock, used, removed, port, listed, api>>

----------------------------------------------------------------------------
(* Pa11yPersistence: the IndexedDB layer *)

\* tx.objectStore('tasks').put(task)
\* a put that keeps the fields of the stored record the new one lacks
mergeTask(store, task) ==
    Put(store, task.id, IF Has(store, task.id) THEN Assign(store[task.id], task) ELSE task)

saveTask(store, task) == Put(store, task.id, task)

\* a put into a store that was cleared first
putAlone(store, result) == (result.id :> result)

\* tx.objectStore('results').put(result)
saveResult(store, result) == Put(store, result.id, result)

\* store.get(id): the record, or undefined (here: the empty object)
getTask(store, id) == IF id \in DOMAIN store THEN store[id] ELSE Empty

\* the cursor of deleteTask walks the results store and deletes the entries
\* whose task property is id
RECURSIVE cursorDelete(_, _, _)
cursorDelete(store, keys, id) ==
    IF keys = {} THEN store
    ELSE LET k == CHOOSE x \in keys : TRUE
         IN  cursorDelete(IF store[k].task = id THEN Without(store, k) ELSE store,
                          keys \ {k}, id)

\* deleteTask without the cursor over the results store
deleteTaskOnly(ts, rs, id) == <<Without(ts, id), rs>>

\* the two stores after the readwrite transaction of deleteTask(id) completed
deleteTask(ts, rs, id) == <<Without(ts, id), cursorDelete(rs, DOMAIN rs, id)>>

\* the cursor of getResultsByTask
getResultsByTask(rs, taskId) == {k \in DOMAIN rs : rs[k].task = taskId}

\* events that end a readwrite transaction, and what the promise wrapping it
\* does: oncomplete resolves, onerror rejects, an abort that no failed request
\* announces (the commit fails) has no handler
TxEvents == {"complete", "error", "abort"}

\* the promise after the transaction ended with event; "hung" is a promise
\* that is still pending when its transaction is over
Settle(event) == CASE event = "complete" -> "resolved"
                   [] event = "error" -> "rejected"
                   [] OTHER -> "hung"

\* no file downloaded, no import under way, no alert shown
\* done is the import that ended last, kept until the next import
NoPort == [file |-> <<>>, job |-> <<>>, done |-> <<>>, alert |-> ""]

----------------------------------------------------------------------------
(* Pages the server renders *)

Idle == [pc |-> "idle"]

\* a task card of the list page: name, simplified url and (standard); the stat
\* and last-run widgets are there when the task has a last_result
RenderCard(task) ==
    Assign([id |-> task.id, name |-> task.name, url |-> simplifyUrl(task.url),
            std |-> Parens(task.standard)],
           IF Has(task, "last_result")
           THEN [danger |-> <<task.last_result.count["error"], "Errors">>,
                 warning |-> <<task.last_result.count["warning"], "Warnings">>,
                 info |-> <<task.last_result.count["notice"], "Notices">>,
                 lastRun |-> <<"Last run", formatDate(task.last_result.date)>>]
           ELSE Empty)

\* the header of the detail page; a placeholder when the service has no task
RenderHeader(ts, rs, id) ==
    IF id \in DOMAIN ts
    THEN [name |-> ts[id].name, href |-> ts[id].url, std |-> Parens(ts[id].standard),
          results |-> Len(rs[id])]
    ELSE [name |-> <<>>, href |-> <<>>, std |-> Parens(""), results |-> 0]

\* the ids of S in ascending order
RECURSIVE Sorted(_)
Sorted(S) ==
    IF S = {} THEN <<>>
    ELSE LET m == CHOOSE x \in S : \A y \in S : x <= y
         IN  <<m>> \o Sorted(S \ {m})

\* the list page: cards are the cards the server rendered, by task id; view
\* is the list of the children of #grid-container, which the scripts extend
\* and patch
ListPage(ts, deleted) ==
    [kind |-> "list", deleted |-> deleted,
     cards |-> [id \in DOMAIN ts |-> RenderCard(ts[id])],
     view |-> [i \in 1..Cardinality(DOMAIN ts) |-> RenderCard(ts[Sorted(DOMAIN ts)[i]])]]

\* the detail page: the header, the last-run display with the date of the
\* newest result the server holds, the results view and the rows of the graph
\* table the server rendered, and no history section
DetailPage(ts, rs, id) ==
    LET n == IF id \in DOMAIN rs THEN Len(rs[id]) ELSE 0
    IN  [kind |-> "detail", id |-> id, header |-> RenderHeader(ts, rs, id),
         lastRun |-> IF n > 0 THEN <<formatDate(rs[id][n].date)>> ELSE <<>>,
         view |-> IF n > 0 THEN [by |-> "server"] ELSE [by |-> "none"],
         graph |-> [by |-> "server", rows |-> n],
         history |-> <<>>]

\* the title of the first standard, which the placeholder edit form selects
defaultStandard == "Section508"

\* the fields of the placeholder edit form
PlaceholderForm ==
    [name |-> <<>>, url |-> <<>>, standard |-> defaultStandard, ignore |-> <<>>,
     timeout |-> "", wait |-> "", actions |-> <<>>, username |-> "", password |-> "",
     headers |-> <<>>, hideElements |-> ""]

\* the lines "key: value" of a headers object
RECURSIVE HeaderLines(_)
HeaderLines(headers) ==
    IF DOMAIN headers = {} THEN <<>>
    ELSE LET k == CHOOSE x \in DOMAIN headers : TRUE
         IN  <<<<k, headers[k]>>>> \o HeaderLines(Without(headers, k))

\* the form fields showing a task; a field the task lacks is empty, and the
\* checkboxes stay as they are in the form when the task has no ignore list
TaskForm(form, task) ==
    [name |-> IF Has(task, "name") THEN task.name ELSE <<>>,
     url |-> IF Has(task, "url") THEN task.url ELSE <<>>,
     standard |-> IF Has(task, "standard") THEN task.standard ELSE "",
     timeout |-> IF Has(task, "timeout") THEN task.timeout ELSE "",
     wait |-> IF Has(task, "wait") THEN task.wait ELSE "",
     actions |-> IF Has(task, "actions") THEN task.actions ELSE <<>>,
     username |-> IF Has(task, "username") THEN task.username ELSE "",
     password |-> IF Has(task, "password") THEN task.password ELSE "",
     headers |-> IF Has(task, "headers") THEN HeaderLines(task.headers) ELSE <<>>,
     hideElements |-> IF Has(task, "hideElements") THEN task.hideElements ELSE "",
     ignore |-> IF Has(task, "ignore") THEN task.ignore ELSE form.ignore]

\* the edit page of task id as GET /:id/edit renders it from the Map ts, or
\* the placeholder; posted holds the form values of the POST that was
\* redirected here, pre tells whether prepopulate has filled the form
EditPage(ts, id, posted) ==
    [kind |-> "edit", id |-> id, posted |-> posted, pre |-> FALSE,
     form |-> IF id \in DOMAIN ts THEN TaskForm(PlaceholderForm, ts[id]) ELSE PlaceholderForm]

\* syncFromDOM as the ready handler starts it: one save promise per card; had
\* remembers for the properties which stored tasks had a last_result when the
\* page was loaded
SyncStart(pg) ==
    [pc |-> "saving", st |-> [id \in DOMAIN pg.cards |-> "pending"], stored |-> {}, del |-> Empty,
     had |-> {id \in DOMAIN durTasks : Has(durTasks[id], "last_result")}]

\* no script of the document is in the middle of a job that ends in the same
\* turn of the event loop
Scripting == crun.pc # "reloading"

\* the browser shows a new document: the scripts of the old one stop, the
\* ready handlers of the new one start
Show(pg) ==
    /\ page' = pg
    /\ sync' = IF pg.kind = "list" THEN SyncStart(pg) ELSE Idle
    /\ hist' = IF pg.kind = "detail"
               THEN [pc |-> "start", res |-> "start", rsync |-> "start", graph |-> "start"]
               ELSE Idle
    /\ crun' = Idle

\* GET /
LoadList ==
    /\ Scripting
    /\ Show(ListPage(tasks, FALSE))
    /\ reply' = "ok"
    /\ UNCHANGED <<tasks, results, srvRuns, durTasks, durResults, clock, used, removed, port, listed, api>>

\* GET /:id
LoadDetail(id) ==
    /\ Scripting /\ id \in used
    /\ Show(DetailPage(tasks, results, id))
    /\ reply' = IF id \in DOMAIN tasks THEN "ok" ELSE "Task not found"
    /\ UNCHANGED <<tasks, results, srvRuns, durTasks, durResults, clock, used, removed, port, listed, api>>

\* the URL of the document requested again
Reloaded ==
    CASE page.kind = "list" -> ListPage(tasks, page.deleted)
      [] page.kind = "detail" -> DetailPage(tasks, results, page.id)
      [] OTHER -> page

\* the user reloads the list or the detail page
Reload ==
    /\ Scripting /\ page.kind \in {"list", "detail"}
    /\ Show(Reloaded)
    /\ reply' = IF page.kind = "list" \/ page.id \in DOMAIN tasks THEN "ok" ELSE "Task not found"
    /\ UNCHANGED <<tasks, results, srvRuns, durTasks, durResults, clock, used, removed, port, listed, api>>

\* an error page in place of the delete confirmation page
ErrorPage(ts, id) == [kind |-> "error", id |-> id]

\* the delete confirmation page of task id: the legend, and the url and the
\* standard of the lead paragraph, blank for the placeholder
DeletePage(ts, id) ==
    LET url == IF id \in DOMAIN ts THEN ts[id].url ELSE <<>>
        standard == IF id \in DOMAIN ts THEN ts[id].standard ELSE ""
    IN  [kind |-> "delete", id |-> id, patched |-> FALSE,
         legend |-> simplifyUrl(url), strong |-> url, small |-> Parens(standard)]

\* GET /:id/delete
LoadDelete(id) ==
    /\ Scripting /\ id \in used
    /\ Show(DeletePage(tasks, id))
    /\ reply' = IF id \in DOMAIN tasks THEN "ok" ELSE "Task not found"
    /\ UNCHANGED <<tasks, results, srvRuns, durTasks, durResults, clock, used, removed, port, listed, api>>

\* the delete manager: getTask(id), then the texts of the confirmation page
\* take the url and the standard of the stored task
DeletePatch ==
    /\ page.kind = "delete" /\ ~page.patched
    /\ LET task == getTask(durTasks, page.id)
       IN  page' = IF task = Empty \/ ~Has(task, "url")
                   THEN [page EXCEPT !.patched = TRUE]
                   ELSE [page EXCEPT !.patched = TRUE,
                                     !.legend = simplifyUrl(task.url),
                                     !.strong = task.url,
                                     !.small = IF Has(task, "standard") THEN Parens(task.standard)
                                               ELSE Parens("undefined")]
    /\ UNCHANGED <<tasks, results, srvRuns, durTasks, durResults, sync, hist, crun, clock, used, removed, reply, port, listed, api>>

\* POST /:id/delete: task(id).remove, then the redirect to /?deleted is followed
DeletePost(id) ==
    /\ Scripting /\ id \in used
    /\ tasks' = Without(tasks, id)
    /\ results' = Without(results, id)
    /\ srvRuns' = [i \in DOMAIN srvRuns |->
                     IF srvRuns[i].task = id /\ id \in DOMAIN tasks
                     THEN [srvRuns[i] EXCEPT !.obj = tasks[id]] ELSE srvRuns[i]]
    /\ removed' = removed \cup {id}
    /\ Show(ListPage(Without(tasks, id), TRUE))
    /\ reply' = "ok"
    /\ UNCHANGED <<durTasks, durResults, clock, used, port, listed, api>>

----------------------------------------------------------------------------
(* List page: syncFromDOM *)

\* parseInt(text, 10) || 0 of a stat widget, whose text is the number followed
\* by the label
ParseInt(text) == IF text = <<>> THEN 0 ELSE text[1]

\* the task object syncFromDOM reads off a card
ExtractCard(card) ==
    Assign([id |-> card.id, name |-> Trim(card.name), url |-> Trim(card.url),
            standard |-> StripParens(Trim(card.std))],
           IF {"danger", "warning", "info", "lastRun"} \subseteq DOMAIN card
           THEN [last_result |->
                    [date |-> card.lastRun[2],
                     count |-> [error |-> ParseInt(card.danger),
                                warning |-> ParseInt(card.warning),
                                notice |-> ParseInt(card.info)]]]
           ELSE Empty)

domTasks == [id \in DOMAIN page.cards |-> ExtractCard(page.cards[id])]

\* Object.assign({}, existing || {}, domTasks[id])
Merged(existing, domTask) == Assign(existing, domTask)

SetSt(id, st) == [sync EXCEPT !.st[id] = st]

\* the promise syncFromDOM returns rejects as soon as one save promise does
AfterReject(sy) == IF sy.pc = "saving" THEN [sy EXCEPT !.pc = "rejected"] ELSE sy

\* one save promise: existing = await getTask(id); await saveTask(merged).
\* how = "merged": both succeed.  "read": getTask rejects.  "write": the put
\* fails and saveTask rejects.  "abort": the transaction of saveTask aborts
\* with no request error and its promise stays pending.
SyncSave(id, how) ==
    /\ Scripting
    /\ page.kind = "list" /\ id \in DOMAIN sync.st /\ sync.st[id] = "pending"
    /\ durTasks' = IF how = "merged"
                   THEN saveTask(durTasks, Merged(getTask(durTasks, id), domTasks[id]))
                   ELSE durTasks
    /\ sync' = SetSt(id, CASE how = "merged" -> "done"
                           [] how = "abort" -> "hung"
                           [] OTHER -> "fallback")
    /\ UNCHANGED <<tasks, results, srvRuns, durResults, page, hist, crun, clock, used, removed, reply, port, listed, api>>

\* catch (err) { await Pa11yPersistence.saveTask(domTasks[id]) }
SyncFallback(id, event) ==
    /\ Scripting
    /\ page.kind = "list" /\ id \in DOMAIN sync.st /\ sync.st[id] = "fallback"
    /\ durTasks' = IF event = "complete" THEN saveTask(durTasks, domTasks[id]) ELSE durTasks
    /\ sync' = CASE event = "complete" -> SetSt(id, "done")
                 [] event = "error" -> AfterReject(SetSt(id, "rejected"))
                 [] OTHER -> SetSt(id, "hung")
    /\ UNCHANGED <<tasks, results, srvRuns, durResults, page, hist, crun, clock, used, removed, reply, port, listed, api>>

\* the check of the deleted parameter left out
AlwaysDeleted(pg) == TRUE

\* the deleted parameter never seen
NeverDeleted(pg) == FALSE

\* params.has('deleted')
HasDeleted(pg) == pg.deleted

\* the filter of the stored tasks without its negation
StoredInDom(stored, dom) == {t \in stored : t \in DOMAIN dom}

\* storedTasks.filter(t => !domTasks[t.id])
StoredNotInDom(stored, dom) == {t \in stored : t \notin DOMAIN dom}

\* after await Promise.all(savePromises): the check of the deleted parameter,
\* getTasks() and the deleteTask calls for the stored tasks not in the DOM
SyncAfterSaves ==
    /\ Scripting
    /\ page.kind = "list" /\ sync.pc = "saving"
    /\ \A id \in DOMAIN sync.st : sync.st[id] = "done"
    /\ LET stored == IF HasDeleted(page) THEN DOMAIN durTasks ELSE {}
           gone == StoredNotInDom(stored, domTasks)
       IN  sync' = [sync EXCEPT !.pc = IF gone = {} THEN "resolved" ELSE "deleting",
                                !.stored = stored,
                                !.del = [t \in gone |-> "pending"]]
    /\ UNCHANGED <<tasks, results, srvRuns, durTasks, durResults, page, hist, crun, clock, used, removed, reply, port, listed, api>>

\* one of the deleteTask transactions ends; Promise.all(deletePromises)
\* resolves with the last of them and rejects with the first that fails
SyncDelete(id, event) ==
    /\ Scripting
    /\ page.kind = "list" /\ sync.pc \in {"deleting", "rejected"}
    /\ id \in DOMAIN sync.del /\ sync.del[id] = "pending"
    /\ LET after == deleteTask(durTasks, durResults, id)
           del == [sync.del EXCEPT ![id] = Settle(event)]
       IN  /\ durTasks' = IF event = "complete" THEN after[1] ELSE durTasks
           /\ durResults' = IF event = "complete" THEN after[2] ELSE durResults
           /\ sync' = [sync EXCEPT !.del = del,
                                   !.pc = IF event = "error" THEN "rejected"
                                          ELSE IF @ = "deleting" /\ \A t \in DOMAIN del : del[t] = "resolved"
                                               THEN "resolved" ELSE @]
    /\ UNCHANGED <<tasks, results, srvRuns, page, hist, crun, clock, used, removed, reply, port, listed, api>>

----------------------------------------------------------------------------
(* List page: loadPersistedTasks and updateDomWithPersistedTasks *)

\* new Date(text) rendered as DD MMM YYYY: an ISO timestamp is formatted, a
\* date that is DD MMM YYYY already comes out as it is
reformatDate(d) == IF d[1] = "iso" THEN formatDate(d) ELSE d

\* the skip test of loadPersistedTasks left out
NeverInDom(view, id) == FALSE

\* document.querySelector('#grid-container li[data-task-id="' + id + '"]')
InDom(view, id) == \E i \in DOMAIN view : view[i].id = id

\* the stat widgets and the last-run line, with the run count when more than
\* one result is stored; the "No results" marker without a last_result
StatWidgets(task, runs) ==
    IF Has(task, "last_result") /\ Has(task.last_result, "count")
    THEN [danger |-> <<task.last_result.count["error"], "Errors">>,
          warning |-> <<task.last_result.count["warning"], "Warnings">>,
          info |-> <<task.last_result.count["notice"], "Notices">>,
          lastRun |-> <<"Last run", reformatDate(task.last_result.date)>>
                        \o (IF runs > 1 THEN <<runs>> ELSE <<>>)]
    ELSE [noRes |-> "No results"]

\* the card loadPersistedTasks builds from a stored task
SyntheticCard(task, runs) ==
    Assign([id |-> task.id, name |-> task.name, url |-> simplifyUrl(task.url),
            std |-> Parens(task.standard)],
           StatWidgets(task, runs))

\* the card after updateDomWithPersistedTasks rebuilt its widgets
PatchedCard(card, task, runs) ==
    Assign([k \in (DOMAIN card) \ {"noRes", "danger", "warning", "info", "lastRun"} |-> card[k]],
           StatWidgets(task, runs))

\* loadPersistedTasks after syncFromDOM resolved: getTasks(), then one async
\* callback per stored task that has no card; a task without last_result gets
\* its card at once, the others after their getResultsByTask
LoadPersisted ==
    /\ Scripting
    /\ page.kind = "list" /\ sync.pc = "resolved"
    /\ LET absent == {id \in DOMAIN durTasks : ~InDom(page.view, id)}
           later == {id \in absent : Has(durTasks[id], "last_result") /\ Has(durTasks[id].last_result, "count")}
           now == Sorted(absent \ later)
       IN  /\ page' = [page EXCEPT !.view = @ \o [i \in DOMAIN now |-> SyntheticCard(durTasks[now[i]], 0)]]
           /\ sync' = Assign(sync, [pc |-> "loaded", pending |-> [id \in later |-> durTasks[id]]])
    /\ UNCHANGED <<tasks, results, srvRuns, durTasks, durResults, hist, crun, clock, used, removed, reply, port, listed, api>>

\* the callback of one stored task after its getResultsByTask:
\* container.appendChild(li)
AppendCard(id) ==
    /\ Scripting
    /\ page.kind = "list" /\ Has(sync, "pending") /\ id \in DOMAIN sync.pending
    /\ page' = [page EXCEPT !.view = Append(@, SyntheticCard(sync.pending[id],
                                        Cardinality(getResultsByTask(durResults, id))))]
    /\ sync' = [sync EXCEPT !.pending = Without(@, id)]
    /\ UNCHANGED <<tasks, results, srvRuns, durTasks, durResults, hist, crun, clock, used, removed, reply, port, listed, api>>

\* updateDomWithPersistedTasks, which starts when loadPersistedTasks has
\* returned: the first card of every stored task gets its widgets rebuilt
UpdateDom ==
    /\ Scripting
    /\ page.kind = "list" /\ sync.pc = "loaded"
    /\ page' = [page EXCEPT !.view =
                    [i \in DOMAIN @ |->
                        IF @[i].id \in DOMAIN durTasks /\ \A j \in 1..(i - 1) : @[j].id # @[i].id
                        THEN PatchedCard(@[i], durTasks[@[i].id],
                                         Cardinality(getResultsByTask(durResults, @[i].id)))
                        ELSE @[i]]]
    /\ sync' = [sync EXCEPT !.pc = "rendered"]
    /\ UNCHANGED <<tasks, results, srvRuns, durTasks, durResults, hist, crun, clock, used, removed, reply, port, listed, api>>

----------------------------------------------------------------------------
(* List page: the task filter *)

\* String.prototype.toLowerCase on the words of names, standards and queries
Lower(w) == CASE w \in {"Home", "HOME"} -> "home"
              [] w \in {"Shop", "SHOP"} -> "shop"
              [] w = "WCAG2A" -> "wcag2a"
              [] w = "WCAG2AA" -> "wcag2aa"
              [] w = "WCAG2AAA" -> "wcag2aaa"
              [] OTHER -> w

\* texts typed into the filter input: words, blanks and a punctuation mark
Queries == {<<>>, <<"HOME">>, <<"shop">>, <<" ", "shop">>, <<"!">>,
            <<"shop", " ", " ", "home">>, <<"shop", " ", "!">>, <<"!", " ", "shop">>,
            <<"shop", "!">>}

\* the data-keywords attribute of a card: name, standard and simplified url
Keywords(card) ==
    Trim([i \in DOMAIN card.name |-> Lower(card.name[i])]
            \o <<" ", Lower(card.std[2]), " ">> \o card.url)

\* rawQuery.trim().replace(/[^a-z0-9\s]+/gi, '')
NormaliseQuery(raw) ==
    SelectSeq(Trim(raw), LAMBDA c : c # "!")

\* the card gets the class hidden: the query is not empty and
\* new RegExp('(' + query.replace(/\s+/g, '|') + ')', 'i') does not match the
\* keywords; a blank at an end of the query leaves an empty alternative
Hidden(raw, keywords) ==
    LET query == NormaliseQuery(raw)
        RECURSIVE Alternatives(_)
        Alternatives(q) ==
            IF q = <<>> THEN << <<>> >>
            ELSE LET init == Alternatives(SubSeq(q, 1, Len(q) - 1))
                     c == q[Len(q)]
                 IN  IF c = " "
                     THEN IF Len(q) >= 2 /\ q[Len(q) - 1] = " " THEN init ELSE Append(init, <<>>)
                     ELSE [init EXCEPT ![Len(init)] = Append(@, c)]
        Matches(alt) ==
            \E i \in 0..(Len(keywords) - Len(alt)) :
                \A j \in 1..Len(alt) : Lower(keywords[i + j]) = Lower(alt[j])
    IN  /\ query # <<>>
        /\ ~\E k \in DOMAIN Alternatives(query) : Matches(Alternatives(query)[k])

\* keyup in the filter input with raw as its value: every card of the list
\* loses the class hidden and gets it again when the query does not match
Keyup(raw) ==
    /\ Scripting /\ page.kind = "list"
    /\ page' = [page EXCEPT !.view =
                    [i \in DOMAIN @ |-> Assign(@[i], [hidden |-> Hidden(raw, Keywords(@[i]))])]]
    /\ UNCHANGED <<tasks, results, srvRuns, durTasks, durResults, sync, hist, crun, clock, used, removed, reply, port, listed, api>>

----------------------------------------------------------------------------
(* Detail page: the history display keeps the task persisted *)

\* the task object read off the .task-header
ExtractHeader(id, header) ==
    [id |-> id, name |-> Trim(header.name), url |-> header.href,
     standard |-> StripParens(Trim(header.std))]

\* updateHeaderFromTask: non-empty stored fields replace the header's
updateHeaderFromTask(header, task) ==
    [header EXCEPT
        !.name = IF Has(task, "name") /\ task.name # <<>> THEN task.name ELSE @,
        !.href = IF Has(task, "url") /\ task.url # <<>> THEN task.url ELSE @,
        !.std = IF Has(task, "standard") /\ task.standard # "" THEN Parens(task.standard) ELSE @]

\* Pa11yPersistence.getTask(taskId).then(...): save the scraped task when none
\* is stored, else patch the header
HistPersist ==
    /\ Scripting
    /\ page.kind = "detail" /\ hist.pc = "start"
    /\ LET task == getTask(durTasks, page.id)
       IN  IF task = Empty
           THEN /\ durTasks' = saveTask(durTasks, ExtractHeader(page.id, page.header))
                /\ page' = page
           ELSE /\ durTasks' = durTasks
                /\ page' = [page EXCEPT !.header = updateHeaderFromTask(@, task)]
    /\ hist' = [hist EXCEPT !.pc = "done"]
    /\ UNCHANGED <<tasks, results, srvRuns, durResults, sync, crun, clock, used, removed, reply, port, listed, api>>

\* the ids of the results ids, newest date first
RECURSIVE ByDateDesc(_, _)
ByDateDesc(rs, ids) ==
    IF ids = {} THEN <<>>
    ELSE LET k == CHOOSE x \in ids : \A y \in ids : rs[y].date[2] <= rs[x].date[2]
         IN  <<k>> \o ByDateDesc(rs, ids \ {k})

\* renderHistory: one line per stored result, with its date and counts
renderHistory(rs, order) ==
    [i \in DOMAIN order |-> [date |-> formatDate(rs[order[i]].date), count |-> rs[order[i]].count]]

\* Pa11yPersistence.getResultsByTask(taskId).then(...) of the history display:
\* with stored results, the last-run display takes the date of the newest
\* one, the history section is inserted once and the header is patched
HistResults ==
    /\ Scripting
    /\ page.kind = "detail" /\ hist.res = "start"
    /\ LET ids == getResultsByTask(durResults, page.id)
           order == ByDateDesc(durResults, ids)
           task == getTask(durTasks, page.id)
       IN  page' = IF ids = {} THEN page
                   ELSE [page EXCEPT
                            !.lastRun = <<formatDate(durResults[order[1]].date)>>,
                            !.history = IF @ = <<>> THEN renderHistory(durResults, order) ELSE @,
                            !.header = IF task = Empty THEN @ ELSE updateHeaderFromTask(@, task)]
    /\ hist' = [hist EXCEPT !.res = "done"]
    /\ UNCHANGED <<tasks, results, srvRuns, durTasks, durResults, sync, crun, clock, used, removed, reply, port, listed, api>>

\* an issue of the engine with its type, its rule code and its selector
Rule(t, c, sel) == [code |-> c, type |-> t, message |-> "m", context |-> "x", selector |-> sel]

\* engine results whose issues differ in type, code and selector: a smaller
\* group met before a larger one, groups of equal size, one code under two
\* types, and an issue of a type the view has no tab for
RuleSamples == {
    [issues |-> <<Rule("error", "c1", "s1"), Rule("error", "c2", "s2"),
                  Rule("warning", "c1", "s3"), Rule("error", "c2", "s4")>>],
    [issues |-> <<Rule("notice", "c2", "s1"), Rule("unknown", "c1", "s2"),
                  Rule("notice", "c1", "s3")>>],
    [issues |-> <<>>] }

\* groupBy(arr, key): the object as its properties in insertion order, each
\* with its key and the items pushed to it
RECURSIVE groupBy(_, _)
groupBy(arr, key) ==
    IF arr = <<>> THEN <<>>
    ELSE LET result == groupBy(SubSeq(arr, 1, Len(arr) - 1), key)
             item == arr[Len(arr)]
             at == {i \in DOMAIN result : result[i].key = item[key]}
         IN  IF at = {} THEN Append(result, [key |-> item[key], items |-> <<item>>])
             ELSE [result EXCEPT ![CHOOSE i \in at : TRUE].items = Append(@, item)]

\* obj[key] || []
ItemsOf(obj, key) ==
    LET at == {i \in DOMAIN obj : obj[i].key = key}
    IN  IF at = {} THEN <<>> ELSE obj[CHOOSE i \in at : TRUE].items

\* a sort that leaves the groups in the order of the object
keepOrder(groups) == groups

\* groups.sort((a, b) => b.length - a.length): stable, larger groups first
RECURSIVE sortBySize(_)
sortBySize(groups) ==
    IF groups = <<>> THEN <<>>
    ELSE LET rest == sortBySize(SubSeq(groups, 1, Len(groups) - 1))
             g == groups[Len(groups)]
             n == Cardinality({i \in DOMAIN rest : Len(rest[i]) >= Len(g)})
         IN  SubSeq(rest, 1, n) \o <<g>> \o SubSeq(rest, n + 1, Len(rest))

\* buildCategoryHtml(type, grouped): one panel per group with the code and
\* the message of its first issue, the badge and the selectors of its issues;
\* the "Well done" text when there is no group
buildCategoryHtml(type, grouped) ==
    LET groups == sortBySize([i \in DOMAIN grouped |-> grouped[i].items])
    IN  [panels |-> [i \in DOMAIN groups |->
                        [rule |-> groups[i][1].code, badge |-> Len(groups[i]),
                         text |-> groups[i][1].message,
                         selectors |-> [j \in DOMAIN groups[i] |-> groups[i][j].selector]]],
         welldone |-> groups = <<>>]

\* the tab panes of the results section built from a stored result
ResultTabs(result) ==
    LET issuesByType == IF Has(result, "results") THEN groupBy(result.results, "type") ELSE <<>>
    IN  [type \in Types |-> buildCategoryHtml(type, groupBy(ItemsOf(issuesByType, type), "code"))]

\* the result synchroniser: nothing when the server rendered a results
\* section or nothing is stored, else a results view of the newest stored
\* result
ResultSync ==
    /\ Scripting
    /\ page.kind = "detail" /\ hist.rsync = "start"
    /\ LET ids == getResultsByTask(durResults, page.id)
       IN  page' = IF page.view.by = "server" \/ ids = {} THEN page
                   ELSE [page EXCEPT !.view = [by |-> "client",
                                               result |-> ByDateDesc(durResults, ids)[1],
                                               tabs |-> ResultTabs(durResults[ByDateDesc(durResults, ids)[1]])]]
    /\ hist' = [hist EXCEPT !.rsync = "done"]
    /\ UNCHANGED <<tasks, results, srvRuns, durTasks, durResults, sync, crun, clock, used, removed, reply, port, listed, api>>

\* the graph synchroniser: nothing when the graph table has rows of the
\* server or nothing is stored, else one row per stored result
GraphSync ==
    /\ Scripting
    /\ page.kind = "detail" /\ hist.graph = "start"
    /\ LET ids == getResultsByTask(durResults, page.id)
       IN  page' = IF page.graph.rows > 0 \/ ids = {} THEN page
                   ELSE [page EXCEPT !.graph = [by |-> "client", rows |-> Cardinality(ids)]]
    /\ hist' = [hist EXCEPT !.graph = "done"]
    /\ UNCHANGED <<tasks, results, srvRuns, durTasks, durResults, sync, crun, clock, used, removed, reply, port, listed, api>>

----------------------------------------------------------------------------
(* Run manager: runTask(taskId) of the client *)

\* result.issues.forEach: counts[issue.type]++ when that count is a number
RECURSIVE forEachIssue(_, _)
forEachIssue(issues, counts) ==
    IF issues = <<>> THEN counts
    ELSE forEachIssue(Tail(issues),
                      IF Head(issues).type \in DOMAIN counts
                      THEN [counts EXCEPT ![Head(issues).type] = @ + 1] ELSE counts)

\* countIssues with counts that start without the notice property
countIssuesNoNotice(result) ==
    IF Has(result, "issues")
    THEN forEachIssue(result.issues, [t \in {"error", "warning"} |-> 0])
    ELSE [t \in {"error", "warning"} |-> 0]

countIssues(result) ==
    IF Has(result, "issues")
    THEN forEachIssue(result.issues, [error |-> 0, warning |-> 0, notice |-> 0])
    ELSE [error |-> 0, warning |-> 0, notice |-> 0]

\* the run links of the document
RunLinks == CASE page.kind = "list" -> DOMAIN page.cards
              [] page.kind = "detail" -> {page.id}
              [] OTHER -> {}

\* the result object runTask stores
ResultObj(taskId, task, pa11yResult, now) ==
    Assign([k \in {"url", "name", "standard"} \cap DOMAIN task |-> task[k]],
           [id |-> <<"c", now>>, task |-> taskId, date |-> Iso(now),
            count |-> countIssues(pa11yResult),
            results |-> IF Has(pa11yResult, "issues") THEN pa11yResult.issues ELSE <<>>,
            ignore |-> IF Has(task, "ignore") THEN task.ignore ELSE <<>>])

\* the task a run works with: the stored one, else the one scraped from the
\* .task-header when name, url and standard are all non-empty, else none
RunTaskOf(id) ==
    LET stored == getTask(durTasks, id)
        scraped == IF page.kind = "detail" THEN ExtractHeader(id, page.header) ELSE Empty
    IN  IF stored # Empty THEN stored
        ELSE IF scraped # Empty /\ scraped.name # <<>> /\ scraped.url # <<>> /\ scraped.standard # ""
             THEN scraped ELSE Empty

\* the body runTask posts to /api/run for the task it holds
payload(task) ==
    LET base == {"url", "standard"} \cap DOMAIN task
        arrs == {k \in {"ignore", "actions"} \cap DOMAIN task : task[k] # <<>>}
        strs == TruthyProps(task, {"timeout", "wait", "username", "password", "hideElements"})
        objs == {"headers"} \cap DOMAIN task
    IN  [k \in base \cup arrs \cup strs \cup objs |-> task[k]]

\* the click up to the fetch: getTask, and when nothing is stored the scraped
\* task is saved.  wrote and preResults remember for the properties what the
\* call has written and which results were stored when it began.
RunStart(id) ==
    /\ id \in RunLinks
    /\ crun.pc \in {"idle", "failed", "notfound"}
    /\ InFlight + clock < MaxRuns
    /\ LET task == RunTaskOf(id)
           scrapedNow == task # Empty /\ id \notin DOMAIN durTasks
       IN  /\ crun' = IF task = Empty
                      THEN [pc |-> "notfound", id |-> id, wrote |-> FALSE]
                      ELSE [pc |-> "fetch", id |-> id, task |-> task, wrote |-> scrapedNow,
                            preResults |-> DOMAIN durResults]
           /\ durTasks' = IF scrapedNow THEN saveTask(durTasks, task) ELSE durTasks
    /\ UNCHANGED <<tasks, results, srvRuns, durResults, page, sync, hist, clock, used, removed, reply, port, listed, api>>

\* fetch('/api/run') rejects, or answers 400 (no url) or 500 (engine failure):
\* catch, alert
RunFetchFail ==
    /\ crun.pc = "fetch"
    /\ crun' = [crun EXCEPT !.pc = "failed"]
    /\ UNCHANGED <<tasks, results, srvRuns, durTasks, durResults, page, sync, hist, clock, used, removed, reply, port, listed, api>>

\* the response is ok: the result object is built and saveResult is awaited
RunFetchOk(res) ==
    /\ crun.pc = "fetch"
    /\ Has(crun.task, "url") /\ crun.task.url # <<>>
    /\ LET resultObj == ResultObj(crun.id, crun.task, res, clock + 1)
       IN  /\ durResults' = saveResult(durResults, resultObj)
           /\ crun' = Assign(crun, [pc |-> "saved", response |-> res, result |-> resultObj,
                                    wrote |-> TRUE])
    /\ clock' = clock + 1
    /\ UNCHANGED <<tasks, results, srvRuns, durTasks, page, sync, hist, used, removed, reply, port, listed, api>>

\* the write-back keeping a last_result the task already has
KeepLastResult(task, r) ==
    Assign([last_result |-> [id |-> r.id, date |-> r.date, count |-> r.count]], task)

\* the task with the last_result of the run
WithLastResult(task, r) ==
    Assign(task, [last_result |-> [id |-> r.id, date |-> r.date, count |-> r.count]])

\* task.last_result = {...}; await saveTask(task): when the transaction has
\* completed the reload follows in the same turn
RunSaveTask ==
    /\ crun.pc = "saved"
    /\ durTasks' = saveTask(durTasks, WithLastResult(crun.task, crun.result))
    /\ crun' = [crun EXCEPT !.pc = "reloading"]
    /\ UNCHANGED <<tasks, results, srvRuns, durResults, page, sync, hist, clock, used, removed, reply, port, listed, api>>

\* the put of that saveTask fails: catch, alert
RunSaveTaskFail ==
    /\ crun.pc = "saved"
    /\ crun' = [crun EXCEPT !.pc = "failed"]
    /\ UNCHANGED <<tasks, results, srvRuns, durTasks, durResults, page, sync, hist, clock, used, removed, reply, port, listed, api>>

\* window.location.reload()
RunReload ==
    /\ crun.pc = "reloading"
    /\ Show(Reloaded)
    /\ reply' = IF page.kind = "list" \/ page.id \in DOMAIN tasks THEN "ok" ELSE "Task not found"
    /\ UNCHANGED <<tasks, results, srvRuns, durTasks, durResults, clock, used, removed, port, listed, api>>

----------------------------------------------------------------------------
(* Edit page *)

\* values of the edit form as submitted; actions and headers are the lines of
\* their text areas, a header line being <<key, value>> when it has a colon
EditForms == {
    [name |-> <<" ", "Home2">>, url |-> <<"https://", "a.com", "/">>, standard |-> "WCAG2A",
     timeout |-> "", wait |-> "0", actions |-> <<"click x", " ">>, username |-> "",
     password |-> "p", headers |-> << <<"K", "v">>, <<"bad">> >>, hideElements |-> ".ad",
     ignore |-> <<"r2">>],
    [name |-> <<"Example">>, url |-> <<"https://", "example.com">>, standard |-> "WCAG2AA",
     timeout |-> "", wait |-> "", actions |-> <<>>, username |-> "",
     password |-> "", headers |-> <<>>, hideElements |-> "",
     ignore |-> <<"rule1">>] }

TrimStr(str) == IF str = " " THEN "" ELSE str

\* text.split(/[\r\n]+/).map(a => a.trim()).filter(a => a)
RECURSIVE SplitLines(_)
SplitLines(lines) ==
    IF lines = <<>> THEN <<>>
    ELSE IF TrimStr(Head(lines)) = "" THEN SplitLines(Tail(lines))
         ELSE <<TrimStr(Head(lines))>> \o SplitLines(Tail(lines))

\* the header lines with a colon and a non-empty key, as an object
ParseHeaders(lines) ==
    LET good == {i \in DOMAIN lines : Len(lines[i]) = 2 /\ lines[i][1] # ""}
        keys == {lines[i][1] : i \in good}
    IN  [k \in keys |-> lines[CHOOSE i \in good : lines[i][1] = k /\
                                  \A j \in good : lines[j][1] = k => j <= i][2]]

\* the task object the submit handler of the edit manager saves
clientEdit(existing, id, form) ==
    LET base == IF existing = Empty THEN [id |-> id] ELSE existing
        strs == {k \in {"timeout", "wait", "username", "password", "hideElements"} : form[k] # ""}
        hdrs == ParseHeaders(form.headers)
        cleared == {"timeout", "wait", "username", "password", "hideElements", "headers"}
        kept == [k \in (DOMAIN base) \ cleared |-> base[k]]
    IN  Assign(Assign(kept, [k \in strs |-> IF k \in {"timeout", "wait"} THEN TrimStr(form[k]) ELSE form[k]]),
               Assign([name |-> Trim(form.name), url |-> Trim(form.url),
                       standard |-> TrimStr(form.standard),
                       actions |-> SplitLines(form.actions), ignore |-> form.ignore],
                      IF hdrs = Empty THEN Empty ELSE [headers |-> hdrs]))

\* request.body of POST /:id/edit after the handler normalised it
EditBody(form) ==
    LET strs == {k \in {"timeout", "wait", "username", "password", "hideElements"} : form[k] # ""}
    IN  Assign([k \in strs |-> form[k]],
               [name |-> form.name, ignore |-> form.ignore,
                actions |-> SplitLines(form.actions), headers |-> ParseHeaders(form.headers)])

EditFields == {"name", "url", "standard", "ignore", "timeout", "wait", "actions",
               "username", "password", "headers", "hideElements"}

\* an edit that copies every property of body
editAll(task, body) == Assign(task, body)

\* task(id).edit(body, callback) on a task the Map holds
edit(task, body) == Assign(task, [k \in EditFields \cap DOMAIN body |-> body[k]])

\* GET /:id/edit
LoadEdit(id) ==
    /\ Scripting /\ id \in used
    /\ Show(EditPage(tasks, id, <<>>))
    /\ reply' = IF id \in DOMAIN tasks THEN "ok" ELSE "Task not found"
    /\ UNCHANGED <<tasks, results, srvRuns, durTasks, durResults, clock, used, removed, port, listed, api>>

\* prepopulate: getTask(id), then the form takes the values of the stored task
Prepopulate ==
    /\ page.kind = "edit" /\ ~page.pre
    /\ page' = [page EXCEPT !.pre = TRUE,
                            !.form = IF getTask(durTasks, page.id) = Empty THEN @
                                     ELSE TaskForm(@, getTask(durTasks, page.id))]
    /\ UNCHANGED <<tasks, results, srvRuns, durTasks, durResults, sync, hist, crun, clock, used, removed, reply, port, listed, api>>

\* the form is submitted: the async submit handler does not hold the
\* submission back, so its saveTask has run (persisted) or has not when the
\* document is replaced; POST /:id/edit edits the in-memory task if there is
\* one and redirects to the edit page
EditSubmit(form, persisted) ==
    /\ page.kind = "edit"
    /\ durTasks' = IF persisted
                   THEN saveTask(durTasks, clientEdit(getTask(durTasks, page.id), page.id, form))
                   ELSE durTasks
    /\ tasks' = IF page.id \in DOMAIN tasks
                THEN [tasks EXCEPT ![page.id] = edit(@, EditBody(form))]
                ELSE tasks
    /\ Show(EditPage(tasks', page.id, <<form>>))
    /\ reply' = IF page.id \in DOMAIN tasks THEN "ok" ELSE "Task not found"
    /\ UNCHANGED <<results, srvRuns, durResults, clock, used, removed, port, listed, api>>

----------------------------------------------------------------------------
(* A second tab of the browser on the same durable store *)

\* the edit form of task id is submitted in another tab and its submit
\* handler has saved the task; POST /:id/edit edits the in-memory task
TabEdit(id, form) ==
    /\ id \in used
    /\ durTasks' = saveTask(durTasks, clientEdit(getTask(durTasks, id), id, form))
    /\ tasks' = IF id \in DOMAIN tasks THEN [tasks EXCEPT ![id] = edit(@, EditBody(form))] ELSE tasks
    /\ reply' = IF id \in DOMAIN tasks THEN "ok" ELSE "Task not found"
    /\ UNCHANGED <<results, srvRuns, durResults, page, sync, hist, crun, clock, used, removed, port, listed, api>>

\* the list page /?deleted is loaded in another tab and its syncFromDOM runs
\* to its end: the rendered tasks are merged into the store and the stored
\* tasks that are not rendered are deleted with their results
TabReconcile ==
    LET RECURSIVE MergeAll(_, _)
        MergeAll(store, ids) ==
            IF ids = {} THEN store
            ELSE LET id == CHOOSE x \in ids : TRUE
                 IN  MergeAll(saveTask(store, Merged(getTask(store, id),
                                                     ExtractCard(RenderCard(tasks[id])))),
                              ids \ {id})
        RECURSIVE DeleteAll(_, _)
        DeleteAll(stores, ids) ==
            IF ids = {} THEN stores
            ELSE LET id == CHOOSE x \in ids : TRUE
                 IN  DeleteAll(deleteTask(stores[1], stores[2], id), ids \ {id})
        merged == MergeAll(durTasks, DOMAIN tasks)
        after == DeleteAll(<<merged, durResults>>, StoredNotInDom(DOMAIN merged, tasks))
    IN  /\ durTasks' = after[1]
        /\ durResults' = after[2]
        /\ UNCHANGED <<tasks, results, srvRuns, page, sync, hist, crun, clock, used, removed, reply, port, listed, api>>

----------------------------------------------------------------------------
(* In-memory webservice: the operations on one task *)

\* bodies given to task(id).edit: whitelisted fields next to an id, a
\* last_result and a property the store does not know; options alone, some of
\* them empty; and no property at all
EditInputs == {
    [name |-> <<"Renamed">>, standard |-> "WCAG2A", id |-> 9,
     last_result |-> [id |-> <<"s", 9>>], foo |-> "bar"],
    [timeout |-> "0", ignore |-> <<>>, headers |-> [K |-> "v"], url |-> <<"http://", "c.net">>],
    Empty }

\* task(id).edit(body, callback)
SrvEdit(id, body) ==
    /\ IF id \notin DOMAIN tasks
       THEN /\ tasks' = tasks
            /\ reply' = "Task not found"
       ELSE /\ tasks' = [tasks EXCEPT ![id] = edit(@, body)]
            /\ reply' = "ok"
    /\ UNCHANGED <<results, srvRuns, durTasks, durResults, page, sync, hist, crun, clock, used, removed, port, listed, api>>

\* a remove that leaves the results Map alone
removeTaskOnly(ts, rs, id) == <<Without(ts, id), rs>>

\* a remove that leaves the tasks Map alone
removeResultsOnly(ts, rs, id) == <<ts, Without(rs, id)>>

\* tasks.delete(id); results.delete(id)
remove(ts, rs, id) == <<Without(ts, id), Without(rs, id)>>

\* task(id).remove(callback); a run that awaits the engine keeps the task
\* object it was given
SrvRemove(id) ==
    /\ tasks' = remove(tasks, results, id)[1]
    /\ results' = remove(tasks, results, id)[2]
    /\ srvRuns' = [i \in DOMAIN srvRuns |->
                     IF srvRuns[i].task = id /\ id \in DOMAIN tasks
                     THEN [srvRuns[i] EXCEPT !.obj = tasks[id]] ELSE srvRuns[i]]
    /\ reply' = "ok"
    /\ UNCHANGED <<durTasks, durResults, page, sync, hist, crun, clock, used, removed, port, listed, api>>

\* a copy of the list as it is
sliceOnly(list) == list

\* list.slice().reverse()
listResults(list) == [i \in 1..Len(list) |-> list[Len(list) + 1 - i]]

\* task(id).results(opts, callback)
SrvResults(id) ==
    /\ IF id \notin DOMAIN results
       THEN /\ reply' = "Task not found"
            /\ listed' = listed
       ELSE /\ reply' = "ok"
            /\ listed' = listResults(results[id])
    /\ UNCHANGED <<tasks, results, srvRuns, durTasks, durResults, page, sync, hist, crun, clock, used, removed, port, api>>

----------------------------------------------------------------------------
(* POST /api/run *)

\* request bodies: none, an empty url, a url with a standard, a url with
\* options of which some are empty, and a url with actions and rules
ApiBodies == {
    Empty,
    [url |-> <<>>, standard |-> "WCAG2A"],
    [url |-> <<"https://", "a.com">>, standard |-> "WCAG2AA"],
    [url |-> <<"a.com">>, standard |-> "", timeout |-> "500", wait |-> "", actions |-> <<>>,
     username |-> "", password |-> "p", headers |-> [K |-> "v"], hideElements |-> "",
     ignore |-> <<>>],
    [url |-> <<"http://", "b.org">>, actions |-> <<"click x">>, ignore |-> <<"r1">>] }

\* a test of the url that lets an empty one pass
UrlAbsent(body) == ~Has(body, "url")

\* !url
NoUrl(body) == ~Has(body, "url") \/ body.url = <<>>

\* the options object the handler builds
ApiOptions(body) ==
    LET strs == TruthyProps(body, {"standard", "username", "password", "hideElements"})
        nums == TruthyProps(body, {"timeout", "wait"})
        arrs == {"actions", "ignore", "headers"} \cap DOMAIN body
    IN  [k \in strs \cup nums \cup arrs |-> IF k \in nums THEN Number(body[k]) ELSE body[k]]

\* the handler up to its return or its await of pa11y(url, options): calls
\* and responses count the engine calls made and the responses sent for
\* the request
ApiRequest(body) ==
    /\ Len(api) < MaxRuns
    /\ api' = Append(api,
                 IF NoUrl(body)
                 THEN [body |-> body, pc |-> "answered", calls |-> 0, responses |-> 1,
                       status |-> 400, json |-> [error |-> "Missing url"]]
                 ELSE [body |-> body, pc |-> "engine", calls |-> 1, responses |-> 0,
                       url |-> body.url, options |-> ApiOptions(body)])
    /\ UNCHANGED <<tasks, results, srvRuns, durTasks, durResults, page, sync, hist, crun, clock, used, removed, reply, port, listed>>

\* pa11y() resolved with res: response.json(result)
ApiOk(i, res) ==
    /\ i \in DOMAIN api /\ api[i].pc = "engine"
    /\ api' = [api EXCEPT ![i] = Assign(@, [pc |-> "answered", responses |-> @.responses + 1,
                                             resolved |-> res, status |-> 200, json |-> res])]
    /\ UNCHANGED <<tasks, results, srvRuns, durTasks, durResults, page, sync, hist, crun, clock, used, removed, reply, port, listed>>

\* pa11y() rejected: next(err), which the error handler of the application
\* answers with status 500
ApiFail(i) ==
    /\ i \in DOMAIN api /\ api[i].pc = "engine"
    /\ api' = [api EXCEPT ![i] = Assign(@, [pc |-> "answered", responses |-> @.responses + 1,
                                             status |-> 500])]
    /\ UNCHANGED <<tasks, results, srvRuns, durTasks, durResults, page, sync, hist, crun, clock, used, removed, reply, port, listed>>

----------------------------------------------------------------------------
(* Export and import of the durable store *)

\* the records of store under the keys ks, as an array
RECURSIVE AsArray(_, _)
AsArray(store, ks) ==
    IF ks = {} THEN <<>>
    ELSE LET k == CHOOSE x \in ks : TRUE
         IN  <<store[k]>> \o AsArray(store, ks \ {k})

\* for (const task of tasks): the results of each task, one task after the
\* other
RECURSIVE ResultsOfTasks(_, _)
ResultsOfTasks(rs, ids) ==
    IF ids = <<>> THEN <<>>
    ELSE AsArray(rs, getResultsByTask(rs, Head(ids))) \o ResultsOfTasks(rs, Tail(ids))

\* collectData: getTasks(), then getResultsByTask of every task
collectData(ts, rs) ==
    [tasks |-> [i \in 1..Cardinality(DOMAIN ts) |-> ts[Sorted(DOMAIN ts)[i]]],
     results |-> ResultsOfTasks(rs, Sorted(DOMAIN ts))]

\* a file: JSON.stringify(data, null, 2) of a document, or a text JSON.parse
\* throws on
JsonFile(data) == [ok |-> TRUE, doc |-> data]
BadFile == [ok |-> FALSE]

\* no array of the document is read
NoArray(doc, k) == <<>>

\* Array.isArray(parsed.tasks) ? parsed.tasks : []
ArrayOf(doc, k) == IF Has(doc, k) THEN doc[k] ELSE <<>>

\* the writes of an import: one per element of the two arrays
WritesOf(doc) ==
    {<<"tasks", i>> : i \in DOMAIN ArrayOf(doc, "tasks")}
        \cup {<<"results", i>> : i \in DOMAIN ArrayOf(doc, "results")}

RecordOf(doc, w) == ArrayOf(doc, w[1])[w[2]]

\* an export edited by hand: the first result of the browser, of task 1,
\* with its issues taken out
EditedFile ==
    JsonFile([tasks |-> <<>>,
              results |-> <<[id |-> <<"c", 1>>, task |-> 1, date |-> Iso(1),
                             count |-> [error |-> 0, warning |-> 0, notice |-> 0],
                             results |-> <<>>]>>])

\* files the user can pick that no export wrote: a text that is not JSON, a
\* task 1 with a name only, a task without id next to a task 2 and its
\* result, a document without arrays, and the edited export
ImportFiles == {
    BadFile,
    EditedFile,
    JsonFile([tasks |-> <<[id |-> 1, name |-> <<"Other">>]>>, results |-> <<>>]),
    JsonFile([tasks |-> <<[name |-> <<"NoId">>],
                         [id |-> 2, name |-> <<"Two">>, url |-> <<"b.org">>, standard |-> "WCAG2A"]>>,
              results |-> <<[id |-> <<"c", 9>>, task |-> 2, date |-> Iso(9),
                            count |-> [error |-> 0, warning |-> 0, notice |-> 1]]>>]),
    JsonFile(Empty) }

\* the task the stores below start from
SeedTask == NewTask(1, [name |-> <<"Home", " ">>, url |-> <<"https://", "a.com", "/">>,
                        ignore |-> <<"r1">>, timeout |-> "500", wait |-> ""])

\* durable stores as the scripts leave them: the seed task synchronised from
\* the list page, run from the browser once or twice, and a task 2 stored by
\* the edit page, with a result
PortT1 == Merged(Empty, ExtractCard(RenderCard(SeedTask)))
PortR1 == ResultObj(1, PortT1, [issues |-> <<Issue("error"), Issue("error"), Issue("warning")>>], 1)
PortR2 == ResultObj(1, PortT1, [issues |-> <<>>], 2)
PortT2 == clientEdit(Empty, 2, CHOOSE f \in EditForms : f.standard = "WCAG2AA")
PortR3 == ResultObj(2, PortT2, [issues |-> <<Issue("notice")>>], 3)

PortStores == {
    <<Empty, Empty>>,
    <<saveTask(Empty, PortT1), Empty>>,
    <<saveTask(Empty, WithLastResult(PortT1, PortR1)), saveResult(Empty, PortR1)>>,
    <<saveTask(Empty, WithLastResult(PortT1, PortR2)), saveResult(saveResult(Empty, PortR1), PortR2)>>,
    <<saveTask(saveTask(Empty, WithLastResult(PortT1, PortR2)), WithLastResult(PortT2, PortR3)),
      saveResult(saveResult(saveResult(Empty, PortR1), PortR2), PortR3)>>,
    <<saveTask(Empty, WithLastResult(PortT2, PortR3)), saveResult(saveResult(Empty, PortR1), PortR3)>> }

\* the files the user can pick: those, and the exports of these stores
Files == ImportFiles \cup {JsonFile(collectData(st[1], st[2])) : st \in PortStores}

\* the writes of the imports of these files
AllWrites == UNION {WritesOf(f.doc) : f \in {g \in Files : g.ok}}

\* handleExport: the collected data is downloaded as a file
Export ==
    /\ Scripting /\ page.kind # "none" /\ port.job = <<>>
    /\ port' = [port EXCEPT !.file = <<JsonFile(collectData(durTasks, durResults))>>,
                            !.alert = ""]
    /\ UNCHANGED <<tasks, results, srvRuns, durTasks, durResults, page, sync, hist, crun, clock, used, removed, reply, listed, api>>

\* handleImport and onFileSelected: the user picks a file, readAsText starts
ImportStart(file) ==
    /\ Scripting /\ page.kind # "none" /\ port.job = <<>>
    /\ port' = [port EXCEPT !.job = <<[pc |-> "reading", file |-> file,
                                       exported |-> port.file = <<file>>]>>,
                            !.done = <<>>, !.alert = ""]
    /\ UNCHANGED <<tasks, results, srvRuns, durTasks, durResults, page, sync, hist, crun, clock, used, removed, reply, listed, api>>

\* reader.onload up to its await: JSON.parse, and one saveTask or saveResult
\* is started per record; a text that does not parse ends in the alert
ImportLoad ==
    /\ port.job # <<>> /\ port.job[1].pc = "reading"
    /\ LET job == port.job[1]
       IN  port' = IF job.file.ok
                   THEN [port EXCEPT !.job = <<Assign(job,
                            [pc |-> "writing",
                             fresh |-> durTasks = Empty /\ durResults = Empty,
                             before |-> durTasks,
                             todo |-> WritesOf(job.file.doc), failed |-> {}])>>]
                   ELSE [port EXCEPT !.job = <<>>,
                                     !.alert = "Failed to import data. Ensure the JSON file is valid."]
    /\ UNCHANGED <<tasks, results, srvRuns, durTasks, durResults, page, sync, hist, crun, clock, used, removed, reply, listed, api>>

\* one write of the import settles: put stores a record that has an id and
\* throws on one without, which the catch of that record logs
ImportWrite(w) ==
    /\ port.job # <<>> /\ port.job[1].pc = "writing" /\ w \in port.job[1].todo
    /\ LET job == port.job[1]
           rec == RecordOf(job.file.doc, w)
       IN  /\ durTasks' = IF w[1] = "tasks" /\ Has(rec, "id") THEN saveTask(durTasks, rec) ELSE durTasks
           /\ durResults' = IF w[1] = "results" /\ Has(rec, "id") THEN saveResult(durResults, rec)
                             ELSE durResults
           /\ port' = [port EXCEPT !.job = <<[job EXCEPT
                            !.todo = @ \ {w},
                            !.failed = IF Has(rec, "id") THEN @ ELSE @ \cup {w}]>>]
    /\ UNCHANGED <<tasks, results, srvRuns, page, sync, hist, crun, clock, used, removed, reply, listed, api>>

\* the reload does not wait for the writes
NoWait(job) == TRUE

\* await Promise.all(taskPromises.concat(resultPromises))
AllSettled(job) == job.todo = {}

\* window.location.reload() once the writes have settled
ImportDone ==
    /\ port.job # <<>> /\ port.job[1].pc = "writing" /\ AllSettled(port.job[1])
    /\ port' = [port EXCEPT !.job = <<>>, !.done = port.job]
    /\ Show(Reloaded)
    /\ UNCHANGED <<tasks, results, srvRuns, durTasks, durResults, clock, used, removed, reply, listed, api>>

\* the dashboard is opened in a browser that has no database yet:
\* onupgradeneeded creates the two object stores, empty
FreshStore ==
    /\ port.job = <<>>
    /\ durTasks' = Empty /\ durResults' = Empty
    /\ port' = [port EXCEPT !.done = <<>>, !.alert = ""]
    /\ Show(Reloaded)
    /\ UNCHANGED <<tasks, results, srvRuns, clock, used, removed, reply, listed, api>>

----------------------------------------------------------------------------
(* Specifications *)

Init ==
    /\ tasks = Empty
    /\ results = Empty
    /\ srvRuns = <<>>
    /\ durTasks = Empty
    /\ durResults = Empty
    /\ page = [kind |-> "none"]
    /\ sync = Idle
    /\ hist = Idle
    /\ crun = Idle
    /\ clock = 0
    /\ used = {}
    /\ removed = {}
    /\ reply = ""
    /\ port = NoPort
    /\ listed = <<>>
    /\ api = <<>>

\* the in-memory webservice and the node process
Server ==
    \/ \E body \in NewBodies : Create(body)
    \/ \E id \in TaskIds : SrvRunStart(id)
    \/ \E i \in 1..MaxRuns, res \in EngineSamples : SrvRunOk(i, res)
    \/ \E i \in 1..MaxRuns : SrvRunFail(i)
    \/ Restart

\* the user on the list page
ListNav ==
    \/ LoadList
    \/ Reload
    \/ \E id \in TaskIds : DeletePost(id)

\* syncFromDOM when every IndexedDB request succeeds and every transaction
\* completes
ListSync ==
    \/ \E id \in TaskIds : SyncSave(id, "merged")
    \/ SyncAfterSaves
    \/ \E id \in TaskIds : SyncDelete(id, "complete")

\* the run manager
ClientRun ==
    \/ \E id \in TaskIds : RunStart(id)
    \/ RunFetchFail
    \/ \E res \in EngineSamples : RunFetchOk(res)
    \/ RunSaveTask
    \/ RunReload

\* the detail page
Detail ==
    \/ \E id \in TaskIds : LoadDetail(id)
    \/ HistPersist

\* the delete confirmation page
DeleteConfirm ==
    \/ \E id \in TaskIds : LoadDelete(id)
    \/ DeletePatch

\* the scripts of the detail page that show the stored results
DetailResults ==
    \/ HistResults
    \/ ResultSync
    \/ GraphSync

\* the edit page
Edit ==
    \/ \E id \in TaskIds : LoadEdit(id)
    \/ Prepopulate
    \/ \E form \in EditForms, persisted \in BOOLEAN : EditSubmit(form, persisted)

\* IndexedDB requests fail and transactions abort
StoreFault ==
    \/ \E id \in TaskIds, how \in {"read", "write", "abort"} : SyncSave(id, how)
    \/ \E id \in TaskIds, event \in TxEvents : SyncFallback(id, event)
    \/ \E id \in TaskIds, event \in {"error", "abort"} : SyncDelete(id, event)
    \/ RunSaveTaskFail

\* the cards of the stored tasks on the list page
ListRender ==
    \/ LoadPersisted
    \/ \E id \in TaskIds : AppendCard(id)
    \/ UpdateDom

\* the export and import buttons
Port ==
    \/ Export
    \/ \E file \in Files : ImportStart(file)
    \/ ImportLoad
    \/ \E w \in AllWrites : ImportWrite(w)
    \/ ImportDone

\* the run endpoint
Api ==
    \/ \E body \in ApiBodies : ApiRequest(body)
    \/ \E i \in 1..MaxRuns, res \in EngineSamples : ApiOk(i, res)
    \/ \E i \in 1..MaxRuns : ApiFail(i)

\* the whole dashboard
Next ==
    \/ Server \/ ListNav \/ ListSync \/ ListRender \/ ClientRun
    \/ Detail \/ DetailResults \/ Edit \/ DeleteConfirm \/ Port \/ FreshStore
    \/ Api
    \/ \E id \in TaskIds, body \in EditInputs : SrvEdit(id, body)
    \/ \E id \in TaskIds : SrvRemove(id)
    \/ \E id \in TaskIds : SrvResults(id)

Spec == Init /\ [][Next]_vars

\* the dashboard used through the list page
NextList == Server \/ ListNav \/ ListSync \/ ClientRun

SpecList == Init /\ [][NextList]_vars

\* the list page over a store whose requests and transactions may fail
NextListFault == NextList \/ StoreFault

SpecListFault == Init /\ [][NextListFault]_vars

\* the list page with the cards its scripts add and patch
NextView == NextList \/ ListRender

SpecView == Init /\ [][NextView]_vars

\* the list page and the delete confirmation page
NextDelete == NextView \/ DeleteConfirm

SpecDelete == Init /\ [][NextDelete]_vars

\* the dashboard used through the detail page
NextDetail == Server \/ Detail \/ Reload \/ ClientRun

SpecDetail == Init /\ [][NextDetail]_vars

\* the detail page with the scripts that show the stored results
NextHistory == NextDetail \/ DetailResults

SpecHistory == Init /\ [][NextHistory]_vars

\* tasks created, synchronised from the list page and edited, with restarts
NextForm ==
    \/ \E body \in NewBodies : Create(body)
    \/ Restart
    \/ LoadList
    \/ \E id \in TaskIds : SyncSave(id, "merged")
    \/ SyncAfterSaves
    \/ Edit

SpecForm == Init /\ [][NextForm]_vars

\* the in-memory webservice alone, with every body create can be given
NextCreate ==
    \/ \E body \in CreateBodies : Create(body)
    \/ \E id \in TaskIds : SrvRunStart(id)
    \/ \E i \in 1..MaxRuns, res \in EngineSamples : SrvRunOk(i, res)
    \/ \E i \in 1..MaxRuns : SrvRunFail(i)
    \/ \E id \in TaskIds : DeletePost(id)
    \/ Restart

SpecCreate == Init /\ [][NextCreate]_vars

\* the in-memory webservice called directly: create, edit, remove, run and
\* results of every id
NextService ==
    \/ \E body \in NewBodies : Create(body)
    \/ \E id \in TaskIds, body \in EditInputs : SrvEdit(id, body)
    \/ \E id \in TaskIds : SrvRemove(id)
    \/ \E id \in TaskIds : SrvRunStart(id)
    \/ \E i \in 1..MaxRuns, res \in EngineSamples : SrvRunOk(i, res)
    \/ \E i \in 1..MaxRuns : SrvRunFail(i)
    \/ \E id \in TaskIds : SrvResults(id)

SpecService == Init /\ [][NextService]_vars

\* the server: the run endpoint next to the in-memory webservice
NextApi ==
    \/ Api
    \/ \E body \in NewBodies : Create(body)
    \/ \E id \in TaskIds : SrvRunStart(id)
    \/ \E i \in 1..MaxRuns, res \in EngineSamples : SrvRunOk(i, res)
    \/ \E i \in 1..MaxRuns : SrvRunFail(i)

SpecApi == Init /\ [][NextApi]_vars

\* the task pages of a server that is restarted and asked for tasks it has
\* forgotten or removed
NextPages ==
    \/ \E body \in NewBodies : Create(body)
    \/ Restart
    \/ \E id \in TaskIds : LoadDetail(id)
    \/ \E id \in TaskIds : LoadEdit(id)
    \/ \E id \in TaskIds : LoadDelete(id)
    \/ \E form \in EditForms, persisted \in BOOLEAN : EditSubmit(form, persisted)
    \/ \E id \in TaskIds : DeletePost(id)

SpecPages == Init /\ [][NextPages]_vars

\* the list page of a server without tasks, over one of these stores
InitPort ==
    /\ tasks = Empty
    /\ results = Empty
    /\ srvRuns = <<>>
    /\ \E st \in PortStores : durTasks = st[1] /\ durResults = st[2]
    /\ page = ListPage(Empty, FALSE)
    /\ sync = [pc |-> "resolved", st |-> Empty, stored |-> {}, del |-> Empty, had |-> {}]
    /\ hist = Idle
    /\ crun = Idle
    /\ clock = 3
    /\ used = {}
    /\ removed = {}
    /\ reply = "ok"
    /\ port = NoPort
    /\ listed = <<>>
    /\ api = <<>>

NextPort == Port \/ FreshStore

SpecPort == InitPort /\ [][NextPort]_vars

\* one task created and synchronised from the list page, then run with every
\* result the engine can return
InitRuns ==
    /\ tasks = (1 :> SeedTask)
    /\ results = (1 :> <<>>)
    /\ srvRuns = <<>>
    /\ durTasks = saveTask(Empty, Merged(Empty, ExtractCard(RenderCard(SeedTask))))
    /\ durResults = Empty
    /\ page = ListPage(1 :> SeedTask, FALSE)
    /\ sync = [pc |-> "resolved", st |-> (1 :> "done"), stored |-> {}, del |-> Empty, had |-> {}]
    /\ hist = Idle
    /\ crun = Idle
    /\ clock = 0
    /\ used = {1}
    /\ removed = {}
    /\ reply = "ok"
    /\ port = NoPort
    /\ listed = <<>>
    /\ api = <<>>

NextRuns ==
    \/ \E id \in TaskIds : SrvRunStart(id)
    \/ \E i \in 1..MaxRuns, res \in EngineResults : SrvRunOk(i, res)
    \/ \E i \in 1..MaxRuns : SrvRunFail(i)
    \/ \E id \in TaskIds : RunStart(id)
    \/ RunFetchFail
    \/ \E res \in EngineResults : RunFetchOk(res)
    \/ RunSaveTask
    \/ RunReload
    \/ \E id \in TaskIds : SyncSave(id, "merged")
    \/ SyncAfterSaves

SpecRuns == InitRuns /\ [][NextRuns]_vars

\* the user picks the edited export, once the id it carries has been handed
\* out: no later result gets an id that is in use
ImportEdited == clock >= 1 /\ ImportStart(EditedFile)

\* results from their creation on: the seed task run on the server and from
\* the list page, edited, reconciled and deleted, and the edited export
\* imported
NextLife ==
    \/ \E id \in TaskIds : SrvRunStart(id)
    \/ \E i \in 1..MaxRuns, res \in EngineSamples : SrvRunOk(i, res)
    \/ \E id \in TaskIds, body \in EditInputs : SrvEdit(id, body)
    \/ \E id \in TaskIds : DeletePost(id)
    \/ ListSync
    \/ \E id \in TaskIds : RunStart(id)
    \/ \E res \in EngineSamples : RunFetchOk(res)
    \/ RunSaveTask
    \/ RunReload
    \/ ImportEdited
    \/ ImportLoad
    \/ \E w \in AllWrites : ImportWrite(w)
    \/ ImportDone

SpecLife == InitRuns /\ [][NextLife]_vars

\* the seed task run from the list page with results of several rules and on
\* the server, and its detail page with the result synchroniser
NextRules ==
    \/ \E id \in TaskIds : SrvRunStart(id)
    \/ \E i \in 1..MaxRuns, res \in EngineSamples : SrvRunOk(i, res)
    \/ \E id \in TaskIds : RunStart(id)
    \/ \E res \in RuleSamples : RunFetchOk(res)
    \/ RunSaveTask
    \/ RunReload
    \/ LoadList
    \/ \E id \in TaskIds : LoadDetail(id)
    \/ ResultSync

SpecRules == InitRuns /\ [][NextRules]_vars

\* the list page with the cards of the server and of the durable store, and
\* the filter input
NextFilter ==
    \/ \E body \in CreateBodies : Create(body)
    \/ Restart
    \/ LoadList
    \/ \E id \in TaskIds : SyncSave(id, "merged")
    \/ SyncAfterSaves
    \/ LoadPersisted
    \/ UpdateDom
    \/ \E raw \in Queries : Keyup(raw)

SpecFilter == Init /\ [][NextFilter]_vars

\* the seed task run from the list page of one tab while another tab edits
\* it, or deletes it and reconciles its list page
NextTabs ==
    \/ \E id \in TaskIds : RunStart(id)
    \/ RunFetchFail
    \/ \E res \in EngineSamples : RunFetchOk(res)
    \/ RunSaveTask
    \/ RunReload
    \/ \E id \in TaskIds : SyncSave(id, "merged")
    \/ SyncAfterSaves
    \/ \E id \in TaskIds, form \in EditForms : TabEdit(id, form)
    \/ \E id \in TaskIds : SrvRemove(id)
    \/ TabReconcile

SpecTabs == InitRuns /\ [][NextTabs]_vars

\* the list page with its cards patched, over a store whose reads and writes
\* of the merge may fail
NextStats ==
    \/ \E body \in NewBodies : Create(body)
    \/ \E id \in TaskIds : SrvRunStart(id)
    \/ \E i \in 1..MaxRuns, res \in EngineSamples : SrvRunOk(i, res)
    \/ LoadList
    \/ \E id \in TaskIds, how \in {"merged", "read", "write"} : SyncSave(id, how)
    \/ \E id \in TaskIds : SyncFallback(id, "complete")
    \/ SyncAfterSaves
    \/ ClientRun
    \/ LoadPersisted
    \/ UpdateDom

SpecStats == Init /\ [][NextStats]_vars

----------------------------------------------------------------------------
(* Properties *)

\* the state of the deleteTask promise of task id, of the save promise of
\* card id, and a property of an object as a sequence of at most one value
DelOf(sy, id) == IF Has(sy, "del") /\ id \in DOMAIN sy.del THEN sy.del[id] ELSE "none"
StOf(sy, id) == IF Has(sy, "st") /\ id \in DOMAIN sy.st THEN sy.st[id] ELSE "none"
Field(o, k) == IF Has(o, k) THEN <<o[k]>> ELSE <<>>
ResultsOf(rs, id) == {k \in DOMAIN rs : rs[k].task = id}

\* C1: a step in which deleteTask(X) completes leaves no task X and no
\* result whose task is X in the durable store, and leaves every other task
\* and every result of another task as it was
C1_CascadeDelete ==
    [][\A id \in TaskIds :
          (DelOf(sync, id) = "pending" /\ DelOf(sync', id) = "resolved") =>
              /\ id \notin DOMAIN durTasks'
              /\ ResultsOf(durResults', id) = {}
              /\ DOMAIN durTasks' = (DOMAIN durTasks) \ {id}
              /\ \A t \in DOMAIN durTasks' : durTasks'[t] = durTasks[t]
              /\ DOMAIN durResults' = (DOMAIN durResults) \ ResultsOf(durResults, id)
              /\ \A r \in DOMAIN durResults' : durResults'[r] = durResults[r]]_vars

\* a delete has completed while another task and a result of it are stored
C1_Witness ==
    \E id \in TaskIds :
        /\ DelOf(sync, id) = "resolved"
        /\ id \notin DOMAIN durTasks
        /\ \E r \in DOMAIN durResults : durResults[r].task \in DOMAIN durTasks

\* no result of the durable store is left without its task
C2_NoOrphan == \A r \in DOMAIN durResults : durResults[r].task \in DOMAIN durTasks

\* C2: the cascade delete is all or nothing: no result is left without its
\* task, a delete that reported success has removed the task and its results,
\* and a delete whose transaction is over has resolved or rejected its promise
C2_AllOrNothing ==
    /\ C2_NoOrphan
    /\ \A id \in TaskIds :
          /\ DelOf(sync, id) = "resolved" =>
                id \notin DOMAIN durTasks /\ ResultsOf(durResults, id) = {}
          /\ DelOf(sync, id) \in {"none", "pending", "resolved", "rejected"}

\* the tallies of result r are the numbers of its entries of each type
CountOk(r) ==
    /\ DOMAIN r.count = Types
    /\ \A t \in Types : r.count[t] = Cardinality({i \in DOMAIN r.results : r.results[i].type = t})
    /\ r.count["error"] + r.count["warning"] + r.count["notice"] = Len(r.results)

\* C3: every result of the in-memory store and of the durable store has
\* tallies that add up to the length of its results, each the number of the
\* entries of its type
C3_CountInvariant ==
    /\ \A t \in DOMAIN results : \A i \in DOMAIN results[t] : CountOk(results[t][i])
    /\ \A k \in DOMAIN durResults : CountOk(durResults[k])

\* both stores hold a result of two issues of different types
C3_Witness ==
    /\ \E t \in DOMAIN results : \E i \in DOMAIN results[t] :
          Len(results[t][i].results) = MaxIssues /\ results[t][i].count["notice"] = 1
    /\ \E k \in DOMAIN durResults :
          Len(durResults[k].results) = MaxIssues /\ durResults[k].count["notice"] = 1

\* C4: when the task of a successful client run has been written back and
\* the reload is due, the durable store holds one result more than when the
\* run began, the result of the run: its task is the task run, its results
\* are the issues of the response, its tallies count them, and last_result of
\* the durable task has its id, date and count
C4_SuccessfulRun ==
    crun.pc = "reloading" =>
        LET R == crun.result
            issues == IF Has(crun.response, "issues") THEN crun.response.issues ELSE <<>>
        IN  /\ (DOMAIN durResults) \ crun.preResults = {R.id}
            /\ durResults[R.id] = R
            /\ R.task = crun.id
            /\ R.results = issues
            /\ \A t \in Types :
                  R.count[t] = Cardinality({i \in DOMAIN issues : issues[i].type = t})
            /\ crun.id \in DOMAIN durTasks
            /\ Has(durTasks[crun.id], "last_result")
            /\ durTasks[crun.id].last_result = [id |-> R.id, date |-> R.date, count |-> R.count]

\* a run of two errors and a warning is about to reload, over a task that
\* had a last_result before
C4_Witness ==
    /\ crun.pc = "reloading"
    /\ crun.result.count = [error |-> 2, warning |-> 1, notice |-> 0]
    /\ Has(crun.task, "last_result")

\* the step in which the engine call of a run of the in-memory store fails,
\* and the steps of a client run up to and including the failure of its fetch
SrvRunFails == reply' = "EngineError" /\ Len(srvRuns') = Len(srvRuns) - 1
RunBegins == crun.pc \in {"idle", "failed", "notfound"} /\ crun'.pc = "fetch"
RunFails == crun.pc = "fetch" /\ crun'.pc = "failed"

\* C5: a run whose engine call fails adds no result and leaves last_result
\* of every task as it was, in the in-memory store and in the durable store;
\* the callback gets the error and the client shows the alert without a
\* reload
C5_FailedRun ==
    [][/\ SrvRunFails =>
            /\ results' = results
            /\ \A t \in DOMAIN tasks :
                  t \in DOMAIN tasks' /\ Field(tasks'[t], "last_result") = Field(tasks[t], "last_result")
       /\ (RunBegins \/ RunFails) =>
            /\ durResults' = durResults
            /\ \A t \in DOMAIN durTasks :
                  t \in DOMAIN durTasks' /\ Field(durTasks'[t], "last_result") = Field(durTasks[t], "last_result")
       /\ RunFails => page' = page]_vars

\* a run of each store has failed over a task that has a last_result
C5_Witness ==
    /\ reply = "EngineError"
    /\ \E t \in DOMAIN tasks : Has(tasks[t], "last_result") /\ results[t] # <<>>
    /\ crun.pc = "failed"
    /\ crun.id \in DOMAIN durTasks /\ Has(durTasks[crun.id], "last_result")

\* C6: a client run that ended in failure has written no record
C6_FailedRunWritesNothing == crun.pc = "failed" => ~crun.wrote

\* C7: when the reconciliation of a list page with the deletion marker is
\* over, the durable store holds the rendered tasks and no other, and no
\* result of a task that is not rendered
C7_MarkerReconciliation ==
    (page.kind = "list" /\ page.deleted /\ sync.pc = "resolved") =>
        /\ DOMAIN durTasks = DOMAIN page.cards
        /\ \A id \in sync.stored \ DOMAIN page.cards :
              id \notin DOMAIN durTasks /\ ResultsOf(durResults, id) = {}
        /\ \A r \in DOMAIN durResults : durResults[r].task \in DOMAIN page.cards

\* the server showed one task while the durable store held another as well
C7_Witness ==
    /\ page.kind = "list" /\ page.deleted /\ sync.pc = "resolved"
    /\ DOMAIN page.cards # {}
    /\ sync.stored \ DOMAIN page.cards # {}
    /\ DOMAIN durTasks = DOMAIN page.cards

\* C8: a durable task that the user has not deleted through the delete page
\* stays in the durable store with its results, whatever restarts of the
\* server, deletes of other tasks and reloads of the list page happen
C8_SurvivesRestart ==
    [][\A y \in (DOMAIN durTasks) \ removed' :
          /\ y \in DOMAIN durTasks'
          /\ ResultsOf(durResults, y) \subseteq DOMAIN durResults']_vars

OptionFields == {"ignore", "timeout", "wait", "actions", "username", "password",
                 "headers", "hideElements"}

\* C10: when the save promise of a rendered task is done, the record of the
\* durable store has the name, url and standard read off the card, the
\* last_result read off the card when it shows the stat and date widgets and
\* the one the record had otherwise, and every option of the record it had
C10_MergeRule ==
    [][\A id \in TaskIds :
          (StOf(sync, id) \in {"pending", "fallback"} /\ StOf(sync', id) = "done") =>
              LET old == getTask(durTasks, id)
                  new == durTasks'[id]
                  card == page.cards[id]
                  dom == ExtractCard(card)
              IN  /\ new.name = dom.name /\ new.url = dom.url /\ new.standard = dom.standard
                  /\ Field(new, "last_result") =
                        IF {"danger", "warning", "info", "lastRun"} \subseteq DOMAIN card
                        THEN <<dom.last_result>> ELSE Field(old, "last_result")
                  /\ \A k \in OptionFields : Field(new, k) = Field(old, k)]_vars

\* syncFromDOM, loadPersistedTasks and updateDomWithPersistedTasks are over
\* and no callback is waiting
RenderSettled ==
    page.kind = "list" /\ sync.pc = "rendered" /\ sync.pending = Empty

CardsOf(view, id) == {i \in DOMAIN view : view[i].id = id}

\* C11: when the reconciliation of the list page has settled, every stored
\* task that the server did not render has exactly one card, with the name,
\* simplified url and standard of the stored record and the three counts of
\* its last_result when it has one, and no task id has two cards
C11_AmnesiaCards ==
    RenderSettled =>
        /\ \A id \in TaskIds : Cardinality(CardsOf(page.view, id)) <= 1
        /\ \A id \in (DOMAIN durTasks) \ DOMAIN page.cards :
              /\ Cardinality(CardsOf(page.view, id)) = 1
              /\ LET card == page.view[CHOOSE i \in CardsOf(page.view, id) : TRUE]
                     task == durTasks[id]
                 IN  /\ card.name = task.name
                     /\ card.url = simplifyUrl(task.url)
                     /\ card.std = <<"(", task.standard, ")">>
                     /\ Has(task, "last_result") =>
                           /\ {"danger", "warning", "info"} \subseteq DOMAIN card
                           /\ card.danger[1] = task.last_result.count["error"]
                           /\ card.warning[1] = task.last_result.count["warning"]
                           /\ card.info[1] = task.last_result.count["notice"]

\* the server rendered no task and the view holds the one card of a stored
\* task, showing 2, 1, 0
C11_Witness ==
    /\ RenderSettled
    /\ page.cards = Empty
    /\ Cardinality(DOMAIN durTasks) = 1
    /\ Len(page.view) = 1
    /\ page.view[1].id \in DOMAIN durTasks
    /\ Has(page.view[1], "danger")
    /\ <<page.view[1].danger[1], page.view[1].warning[1], page.view[1].info[1]>> = <<2, 1, 0>>

\* a step in which the edit form is submitted and the redirect followed
FormSubmitted ==
    /\ page.kind = "edit" /\ page'.kind = "edit"
    /\ page'.posted # <<>> /\ ~page'.pre

\* C12: every submission of the edit form happens with the submitted fields
\* already written to the durable task of the page, created if it was absent
C12_WriteBeforeSubmit ==
    [][FormSubmitted =>
          /\ Has(durTasks', page.id)
          /\ durTasks'[page.id] = clientEdit(getTask(durTasks, page.id), page.id, page'.posted[1])]_vars

\* C13: once the edit page that follows a submission has been pre-populated,
\* its form shows exactly the submitted values
C13_EditRoundTrip ==
    (page.kind = "edit" /\ page.posted # <<>> /\ page.pre) => page.form = page.posted[1]

\* C14: the history display, started on a placeholder detail page of a task
\* the durable store does not hold, leaves the durable tasks as they are
C14_NoSynthesis ==
    [][(/\ page.kind = "detail"
        /\ page.header = RenderHeader(Empty, Empty, page.id)
        /\ ~Has(durTasks, page.id)
        /\ hist.pc = "start" /\ hist'.pc = "done") => durTasks' = durTasks]_vars

\* a step of one of the ready handlers of the detail page
DetailScriptStep ==
    /\ page.kind = "detail"
    /\ \E f \in {"pc", "res", "rsync", "graph"} : hist[f] = "start" /\ hist'[f] = "done"

\* C15: a script of the detail page leaves the last-run display, the history,
\* the results view and the graph as the server rendered them when the
\* durable store holds no result of the task, and leaves the last-run display
\* and the results view alone when the server rendered results
C15_NoDowngrade ==
    [][DetailScriptStep =>
          /\ getResultsByTask(durResults, page.id) = {} =>
                /\ page'.lastRun = page.lastRun /\ page'.history = page.history
                /\ page'.view = page.view /\ page'.graph = page.graph
          /\ page.header.results > 0 =>
                /\ page'.lastRun = page.lastRun /\ page'.view = page.view]_vars

\* C16: on the list page a delete POST redirected to, once syncFromDOM has
\* resolved, the durable store holds no task and no result of a deleted task
\* and the view has no card of it; and no step taken on the delete
\* confirmation page, the POST included, changes the durable store
C16_DeletePropagates ==
    /\ [](\A id \in removed :
            (page.kind = "list" /\ page.deleted /\ sync.pc \in {"resolved", "loaded", "rendered"}) =>
                /\ ~Has(durTasks, id)
                /\ ResultsOf(durResults, id) = {}
                /\ ~InDom(page.view, id))
    /\ [][page.kind = "delete" => durTasks' = durTasks /\ durResults' = durResults]_vars

\* the reconciliation after a delete has completed the deleteTask of a deleted
\* task and kept another stored task
C16_Witness ==
    /\ RenderSettled /\ page.deleted
    /\ \E id \in removed : Has(sync.del, id) /\ sync.del[id] = "resolved"
    /\ durTasks # Empty

\* two documents with the same tasks and the same results, in any order
SameDoc(d1, d2) ==
    \A k \in {"tasks", "results"} :
        /\ Len(d1[k]) = Len(d2[k])
        /\ {d1[k][i] : i \in DOMAIN d1[k]} = {d2[k][i] : i \in DOMAIN d2[k]}

JobRecord(w) == RecordOf(port.job[1].file.doc, w)

\* a step in which write w of the import completes
Written(w) ==
    /\ port.job # <<>> /\ port.job[1].pc = "writing" /\ w \in port.job[1].todo
    /\ port'.job # <<>> /\ w \notin port'.job[1].todo /\ w \notin port'.job[1].failed

\* C18: when a write of an import completes, the record stored under the id
\* is the imported record, field for field, whatever was stored before
C18_FullOverwrite ==
    [][\A w \in AllWrites :
          Written(w) =>
              /\ w[1] = "tasks" => durTasks'[JobRecord(w).id] = JobRecord(w)
              /\ w[1] = "results" => durResults'[JobRecord(w).id] = JobRecord(w)]_vars

\* the import has written a task over a stored one that had fields the
\* imported task lacks
C18_Witness ==
    /\ port.job # <<>> /\ port.job[1].pc = "writing"
    /\ <<"tasks", 1>> \in WritesOf(port.job[1].file.doc) \ (port.job[1].todo \cup port.job[1].failed)
    /\ LET rec == JobRecord(<<"tasks", 1>>)
       IN  /\ Has(port.job[1].before, rec.id)
           /\ (DOMAIN port.job[1].before[rec.id]) \ DOMAIN rec # {}
           /\ durTasks[rec.id] = rec

\* C19: a file that does not parse ends in the alert with nothing written and
\* no reload; the reload of an import happens with no write pending; and when
\* an import has ended every record that has an id is stored, whichever other
\* writes failed
C19_ImportFailures ==
    /\ [][(port.job # <<>> /\ port.job[1].pc = "reading" /\ ~port.job[1].file.ok /\ port' # port) =>
            /\ durTasks' = durTasks /\ durResults' = durResults
            /\ port'.alert # "" /\ port'.job = <<>> /\ port'.done = <<>>
            /\ page' = page /\ sync' = sync]_vars
    /\ [][(port.job # <<>> /\ port.job[1].pc = "writing" /\ port'.job = <<>>) =>
            port.job[1].todo = {} /\ port'.done = port.job]_vars
    /\ [](port.done # <<>> =>
            \A w \in WritesOf(port.done[1].file.doc) :
                LET rec == RecordOf(port.done[1].file.doc, w)
                IN  IF Has(rec, "id")
                    THEN /\ w \notin port.done[1].failed
                         /\ IF w[1] = "tasks" THEN Has(durTasks, rec.id) /\ durTasks[rec.id] = rec
                            ELSE Has(durResults, rec.id) /\ durResults[rec.id] = rec
                    ELSE w \in port.done[1].failed)

\* an import has ended with a failed write and with the other records stored
C19_Witness ==
    /\ port.done # <<>> /\ port.done[1].failed # {}
    /\ WritesOf(port.done[1].file.doc) \ port.done[1].failed # {}
    /\ Has(durTasks, 2) /\ durTasks[2].name = <<"Two">>

\* a body tasks.create must refuse: url or name missing or empty
Refused(body) ==
    \/ ~Has(body, "url") \/ ~Has(body, "name")
    \/ body.url = <<>> \/ body.name = <<>>

\* C20: a create with a refused body reports the error and leaves tasks and
\* results as they are; any other create adds one task under an id the Map
\* did not hold, with the name and url of the body, the standard of the body
\* or WCAG2AA, and an empty result list, and leaves every other task and
\* result list as it was
C20_Create ==
    [][\A body \in CreateBodies :
          Create(body) =>
              IF Refused(body)
              THEN reply' = "Missing required fields" /\ tasks' = tasks /\ results' = results
              ELSE \E id \in (DOMAIN tasks') \ DOMAIN tasks :
                      /\ DOMAIN tasks' = (DOMAIN tasks) \cup {id}
                      /\ DOMAIN results' = (DOMAIN results) \cup {id}
                      /\ id \notin DOMAIN results
                      /\ tasks'[id].id = id
                      /\ tasks'[id].name = body.name /\ tasks'[id].url = body.url
                      /\ tasks'[id].standard = (IF Has(body, "standard") THEN body.standard ELSE "WCAG2AA")
                      /\ results'[id] = <<>>
                      /\ \A o \in DOMAIN tasks : tasks'[o] = tasks[o] /\ results'[o] = results[o]]_vars

\* a second task has been created without a standard next to a task that has
\* a result
C20_Witness ==
    /\ DOMAIN tasks = {1, 2}
    /\ tasks[2].standard = "WCAG2AA" /\ results[2] = <<>>
    /\ Len(results[1]) = 1 /\ Has(tasks[1], "last_result")
    /\ reply = "ok" /\ srvRuns = <<>>

\* C21: an edit of an id the Map does not hold reports Task not found and
\* leaves tasks and results as they are; an edit of a task the Map holds sets
\* the whitelisted fields the body carries and no other property: id,
\* last_result and every other property keep their values, no property of
\* the body outside the whitelist appears, and the result lists and the
\* other tasks stay as they were
C21_Edit ==
    [][\A id \in TaskIds, body \in EditInputs :
          SrvEdit(id, body) =>
              IF id \notin DOMAIN tasks
              THEN reply' = "Task not found" /\ tasks' = tasks /\ results' = results
              ELSE /\ reply' = "ok"
                   /\ results' = results
                   /\ DOMAIN tasks' = DOMAIN tasks
                   /\ \A o \in (DOMAIN tasks) \ {id} : tasks'[o] = tasks[o]
                   /\ \A k \in EditFields :
                         Field(tasks'[id], k) = IF Has(body, k) THEN <<body[k]>> ELSE Field(tasks[id], k)
                   /\ DOMAIN tasks'[id] \subseteq (DOMAIN tasks[id]) \cup EditFields
                   /\ \A k \in (DOMAIN tasks[id]) \ EditFields :
                         Has(tasks'[id], k) /\ tasks'[id][k] = tasks[id][k]]_vars

\* task 1, which has a result and a last_result, has been renamed by a body
\* that also carried an id, a last_result and an unknown property, next to a
\* second task
C21_Witness ==
    /\ DOMAIN tasks = {1, 2} /\ reply = "ok"
    /\ tasks[1].name = <<"Renamed">> /\ tasks[1].standard = "WCAG2A"
    /\ tasks[1].id = 1 /\ ~Has(tasks[1], "foo")
    /\ Len(results[1]) = 1 /\ Has(tasks[1], "last_result")
    /\ tasks[1].last_result = results[1][1]

\* C22: a remove reports no error whether the Map holds the id or not; after
\* it neither Map has the id, every other task and result list is as it
\* was, and a second remove of the id would change nothing; a run that ends
\* after the remove brings neither entry back
C22_RemoveIdempotent ==
    /\ [][\A id \in TaskIds :
            SrvRemove(id) =>
                /\ reply' = "ok"
                /\ DOMAIN tasks' = (DOMAIN tasks) \ {id}
                /\ DOMAIN results' = (DOMAIN results) \ {id}
                /\ \A o \in DOMAIN tasks' : tasks'[o] = tasks[o]
                /\ \A o \in DOMAIN results' : results'[o] = results[o]
                /\ remove(tasks', results', id) = <<tasks', results'>>]_vars
    /\ [](DOMAIN tasks = DOMAIN results)

\* task 1 and its result have been removed while task 2 keeps its result,
\* and no run is in flight
C22_Witness ==
    /\ used = {1, 2} /\ DOMAIN tasks = {2} /\ DOMAIN results = {2}
    /\ Len(results[2]) = 1 /\ Has(tasks[2], "last_result")
    /\ clock = MaxRuns /\ srvRuns = <<>> /\ reply = "ok"

\* a step in which a run of the in-memory store ends with success
SrvRunSucceeds == clock' = clock + 1 /\ reply' = "ok" /\ Len(srvRuns') = Len(srvRuns) - 1

\* C23: a run of an id the Map does not hold reports Task not found and
\* changes nothing; a run that ends with success appends one result to the
\* list of its task, makes it the last_result of the task and leaves the
\* other lists alone; and a results call hands over every result of the
\* list, newest first, the first being the last_result of the task
C23_RunAndList ==
    [][/\ \A id \in TaskIds :
            (SrvRunStart(id) /\ id \notin DOMAIN tasks) =>
                /\ reply' = "Task not found"
                /\ tasks' = tasks /\ results' = results /\ srvRuns' = srvRuns
       /\ SrvRunSucceeds =>
            \E id \in DOMAIN results :
                /\ Len(results'[id]) = Len(results[id]) + 1
                /\ SubSeq(results'[id], 1, Len(results[id])) = results[id]
                /\ tasks'[id].last_result = results'[id][Len(results'[id])]
                /\ \A o \in (DOMAIN results) \ {id} :
                      results'[o] = results[o] /\ tasks'[o] = tasks[o]
       /\ \A id \in DOMAIN results :
            SrvResults(id) =>
                /\ reply' = "ok"
                /\ Len(listed') = Len(results[id])
                /\ {listed'[i] : i \in DOMAIN listed'} = {results[id][i] : i \in DOMAIN results[id]}
                /\ \A i, j \in DOMAIN listed' : i < j => listed'[i].date[2] >= listed'[j].date[2]
                /\ listed' # <<>> =>
                      Has(tasks[id], "last_result") /\ listed'[1] = tasks[id].last_result]_vars

\* a results call has handed over the two results of one task, the newer
\* first, which is the last_result of the task
C23_Witness ==
    /\ Len(listed) = 2
    /\ listed[1].task = listed[2].task
    /\ listed[1].date[2] > listed[2].date[2]
    /\ listed[1].task \in DOMAIN tasks /\ tasks[listed[1].task].last_result = listed[1]

\* C24: a request of the run endpoint without url, or with an empty one, is
\* answered 400 {error: 'Missing url'} with no engine call; any other request
\* makes one engine call and is answered with status 200 and what the engine
\* resolved with, or with status 500 and no result when the engine failed; no
\* request has more than one response, none without an engine call pending
\* is left unanswered, and no step of the endpoint changes tasks or results
C24_RunEndpoint ==
    /\ [](\A i \in DOMAIN api :
            LET r == api[i]
            IN  IF ~Has(r.body, "url") \/ r.body.url = <<>>
                THEN /\ r.pc = "answered" /\ r.calls = 0 /\ r.responses = 1
                     /\ r.status = 400 /\ r.json = [error |-> "Missing url"]
                ELSE /\ r.calls = 1 /\ r.url = r.body.url
                     /\ r.pc = "engine" => r.responses = 0
                     /\ r.pc = "answered" =>
                           /\ r.responses = 1
                           /\ IF Has(r, "resolved")
                              THEN r.status = 200 /\ r.json = r.resolved
                              ELSE r.status = 500 /\ ~Has(r, "json"))
    /\ [][api' # api => tasks' = tasks /\ results' = results /\ srvRuns' = srvRuns]_vars

\* next to a task that has a result, one request was refused for its empty
\* url and another was answered with the three issues the engine found
C24_Witness ==
    /\ \E t \in DOMAIN tasks : Len(results[t]) = 1
    /\ Len(api) = 2
    /\ Has(api[1].body, "url") /\ api[1].pc = "answered" /\ api[1].status = 400
    /\ api[2].pc = "answered" /\ api[2].status = 200 /\ Len(api[2].json.issues) = 3

\* C25: for an id the Map does not hold, GET of the detail, edit and delete
\* pages shows the placeholder page, POST of the edit page changes no task
\* and is followed to the edit page of the id, and POST of the delete page
\* is followed to the list page with the deletion marker, as it is for an id
\* the Map holds
C25_Tolerance ==
    [][/\ \A id \in TaskIds :
            /\ (LoadDetail(id) /\ id \notin DOMAIN tasks) =>
                   /\ page'.kind = "detail" /\ page'.id = id
                   /\ page'.header = [name |-> <<>>, href |-> <<>>, std |-> <<"(", "", ")">>, results |-> 0]
                   /\ page'.lastRun = <<>> /\ page'.view = [by |-> "none"]
            /\ (LoadEdit(id) /\ id \notin DOMAIN tasks) =>
                   page'.kind = "edit" /\ page'.id = id /\ page'.form = PlaceholderForm
            /\ (LoadDelete(id) /\ id \notin DOMAIN tasks) =>
                   /\ page'.kind = "delete" /\ page'.id = id
                   /\ page'.legend = <<>> /\ page'.strong = <<>> /\ page'.small = <<"(", "", ")">>
            /\ DeletePost(id) =>
                   /\ page'.kind = "list" /\ page'.deleted
                   /\ id \notin DOMAIN page'.cards
       /\ \A form \in EditForms, persisted \in BOOLEAN :
            (EditSubmit(form, persisted) /\ page.id \notin DOMAIN tasks) =>
                /\ page'.kind = "edit" /\ page'.id = page.id /\ page'.posted = <<form>>
                /\ tasks' = tasks /\ results' = results]_vars

\* the edit form of a task the server has forgotten was submitted and the
\* placeholder edit page of the task is shown, while the Map holds another
\* task
C25_Witness ==
    /\ page.kind = "edit" /\ page.posted # <<>>
    /\ page.id \in used \ DOMAIN tasks
    /\ page.form = PlaceholderForm
    /\ reply = "Task not found"
    /\ tasks # Empty

\* C26: on the list page the deletes start only when every save promise is
\* done, the synthetic cards start only when the saves are done and every
\* delete has resolved, and the patching of the cards starts only when no
\* synthetic card is still waiting to be appended
C26_Ordering ==
    [][page.kind = "list" =>
          /\ (sync.pc = "saving" /\ sync'.pc = "deleting") =>
                \A id \in DOMAIN sync.st : sync.st[id] = "done"
          /\ (sync.pc = "resolved" /\ sync'.pc = "loaded") =>
                /\ \A id \in DOMAIN sync.st : sync.st[id] = "done"
                /\ \A id \in DOMAIN sync.del : sync.del[id] = "resolved"
          /\ (sync.pc = "loaded" /\ sync'.pc = "rendered") => sync.pending = Empty]_vars

\* a step in which the client run stores r as its result, and one in which a
\* write of the import under way stores the record of the file under id r
RunCreates(r) == crun.pc = "fetch" /\ crun'.pc = "saved" /\ crun'.result = durResults'[r]
ImportWrites(r) ==
    \E w \in AllWrites : w[1] = "results" /\ Written(w) /\ JobRecord(w).id = r

\* a step keeps every durable result as it is unless its task is deleted in
\* the same step, and adds only the result of a run; withImport lets the
\* writes of an import store and replace results as well
DurableLifecycle(withImport) ==
    /\ \A r \in DOMAIN durResults :
          IF r \in DOMAIN durResults'
          THEN durResults'[r] = durResults[r] \/ (withImport /\ ImportWrites(r))
          ELSE durResults[r].task \in (DOMAIN durTasks) \ DOMAIN durTasks'
    /\ \A r \in (DOMAIN durResults') \ DOMAIN durResults :
          RunCreates(r) \/ (withImport /\ ImportWrites(r))

\* a step keeps every result list of the in-memory store unless its task is
\* removed in the same step, and only a successful run appends to one, one
\* result
MemoryLifecycle ==
    /\ \A t \in DOMAIN results :
          IF t \in DOMAIN results'
          THEN /\ Len(results'[t]) >= Len(results[t])
               /\ SubSeq(results'[t], 1, Len(results[t])) = results[t]
               /\ Len(results'[t]) > Len(results[t]) =>
                     SrvRunSucceeds /\ Len(results'[t]) = Len(results[t]) + 1
          ELSE t \notin DOMAIN tasks'
    /\ \A t \in (DOMAIN results') \ DOMAIN results : results'[t] = <<>>

\* C27: a result is stored only by a run, its content never changes once it
\* is stored, whatever run, edit, reconciliation or import follows, and it
\* leaves its store only in a step that deletes its task
C27_ResultLifecycle == [][DurableLifecycle(FALSE) /\ MemoryLifecycle]_vars

\* C27 with the import set apart: a result is stored by a run, or by the
\* write of an import, which replaces the stored result of the same id;
\* no other step changes a stored result, and a result leaves its store only
\* in a step that deletes its task
C27_LifecycleWithImport == [][DurableLifecycle(TRUE) /\ MemoryLifecycle]_vars

\* an import has ended that replaced the result of the run last_result of
\* the durable task 1 names, with the record of the edited file
C27_Witness ==
    /\ port.done # <<>>
    /\ Has(durResults, <<"c", 1>>) /\ durResults[<<"c", 1>>] = EditedFile.doc.results[1]
    /\ Has(durTasks, 1) /\ Has(durTasks[1], "last_result")
    /\ Has(durTasks[1].last_result, "id") /\ durTasks[1].last_result.id = <<"c", 1>>
    /\ durTasks[1].last_result.count # EditedFile.doc.results[1].count

\* C28: when the read or the write of the merge of a rendered task has
\* failed, the step that ends the handling of the failure leaves the durable
\* record of the task with every field it had, the options with their values
\* and last_result with its value unless the card shows one, and leaves the
\* page as it was
C28_FailureKeepsRecord ==
    [][\A id \in TaskIds :
          (page.kind = "list" /\ StOf(sync, id) = "fallback" /\ StOf(sync', id) \in {"done", "rejected", "hung"}) =>
              /\ page' = page
              /\ Has(durTasks, id) =>
                    /\ Has(durTasks', id)
                    /\ DOMAIN durTasks[id] \subseteq DOMAIN durTasks'[id]
                    /\ \A k \in OptionFields \cap DOMAIN durTasks[id] :
                          durTasks'[id][k] = durTasks[id][k]
                    /\ (Has(durTasks[id], "last_result") /\ ~Has(page.cards[id], "lastRun")) =>
                          durTasks'[id].last_result = durTasks[id].last_result]_vars

\* the field k of src is one the engine is to be given: present, and neither
\* an empty text, nor zero, nor an empty list
NonEmptyField(src, k) ==
    /\ Has(src, k)
    /\ CASE k \in {"actions", "ignore", "url"} -> src[k] # <<>>
         [] k \in {"timeout", "wait"} -> src[k] # "" /\ Number(src[k]) # 0
         [] k = "headers" -> TRUE
         [] OTHER -> src[k] # ""

OnlyNonEmpty(o, src) == \A k \in DOMAIN o : NonEmptyField(src, k)

\* C29: the options the store gives the engine for a task, the options the
\* POST /api/run handler gives it for a request body, and the payload the
\* client run builds from its task hold a property only when the field of the
\* task or of the body is present and neither empty text, zero nor empty list
C29_Forwarding ==
    /\ \A i \in DOMAIN srvRuns : OnlyNonEmpty(srvRuns[i].options, srvRuns[i].obj)
    /\ \A i \in DOMAIN api : Has(api[i], "options") => OnlyNonEmpty(api[i].options, api[i].body)
    /\ crun.pc = "fetch" => OnlyNonEmpty(payload(crun.task), crun.task)

\* the issues of result r with the type and the code of a panel, in the order
\* of the result
MembersOf(r, type, code) ==
    SelectSeq(r.results, LAMBDA it : it.type = type /\ it.code = code)

\* the tabs are a results-by-rule view of result r
RulesViewOf(tabs, r) ==
    /\ \A i \in DOMAIN r.results :
          r.results[i].type \in Types =>
              Cardinality({j \in DOMAIN tabs[r.results[i].type].panels :
                              tabs[r.results[i].type].panels[j].rule = r.results[i].code}) = 1
    /\ \A type \in Types :
          LET panels == tabs[type].panels
          IN  /\ \A j \in DOMAIN panels :
                    /\ panels[j].badge >= 1
                    /\ panels[j].badge = Len(MembersOf(r, type, panels[j].rule))
                    /\ panels[j].selectors =
                           [k \in 1..panels[j].badge |-> MembersOf(r, type, panels[j].rule)[k].selector]
              /\ \A j \in 1..(Len(panels) - 1) : panels[j].badge >= panels[j + 1].badge

\* C30: when the result synchroniser of a detail page runs with results of
\* the task stored and no results section of the server, the page gets a view
\* of a stored result of the task than which none has a later date; every
\* issue of that result with a known type is in exactly one panel, that of
\* its type and code; each panel counts and lists, by selector, the issues of
\* its type and code; and the panels of a type come in non-increasing count
C30_RulesView ==
    [][(page.kind = "detail" /\ hist.rsync = "start"
           /\ Has(hist', "rsync") /\ hist'.rsync = "done"
           /\ page.view.by # "server"
           /\ getResultsByTask(durResults, page.id) # {}) =>
          /\ page'.view.by = "client"
          /\ page'.view.result \in getResultsByTask(durResults, page.id)
          /\ \A k \in getResultsByTask(durResults, page.id) :
                durResults[k].date[2] <= durResults[page'.view.result].date[2]
          /\ RulesViewOf(page'.view.tabs, durResults[page'.view.result])]_vars

\* a view built from the newer of two stored results, in which the larger
\* group of errors, met second in the result, is listed first
C30_Witness ==
    /\ page.kind = "detail" /\ page.view.by = "client" /\ hist.rsync = "done"
    /\ Cardinality(getResultsByTask(durResults, page.id)) = 2
    /\ Len(page.view.tabs["error"].panels) = 2
    /\ page.view.tabs["error"].panels[1].rule = "c2"
    /\ page.view.tabs["error"].panels[1].selectors = <<"s2", "s4">>
    /\ page.view.tabs["error"].panels[2].selectors = <<"s1">>
    /\ Len(page.view.tabs["warning"].panels) = 1
    /\ page.view.tabs["notice"].welldone

\* the card of task id among the children of #grid-container
CardIn(view, id) == view[CHOOSE i \in CardsOf(view, id) : TRUE]

\* C31: when the reconciliation of the list page has settled, every card the
\* server rendered with the three counts still shows those counts, and a card
\* the server rendered shows the "No results" marker only if the server
\* rendered it without counts and the stored task had no last_result when the
\* page was loaded
C31_NoDowngrade ==
    RenderSettled =>
        \A id \in DOMAIN page.cards :
            LET card == CardIn(page.view, id)
            IN  /\ Has(page.cards[id], "danger") =>
                      /\ {"danger", "warning", "info"} \subseteq DOMAIN card
                      /\ card.danger[1] = page.cards[id].danger[1]
                      /\ card.warning[1] = page.cards[id].warning[1]
                      /\ card.info[1] = page.cards[id].info[1]
                /\ Has(card, "noRes") =>
                      ~Has(page.cards[id], "danger") /\ id \notin sync.had

\* C32: every result of the durable store has the id of a task of the
\* durable store in its task field
C32_ReferentialIntegrity ==
    \A r \in DOMAIN durResults :
        Has(durResults[r], "task") /\ durResults[r].task \in DOMAIN durTasks

\* the stored result of task id with the greatest date
NewestOf(id) == durResults[ByDateDesc(durResults, getResultsByTask(durResults, id))[1]]

\* C33: when no client run is under way and the reconciliation of the list
\* page is over, every durable task with a durable result has a last_result
\* with the count of the newest result of the task, and with its id when the
\* last_result has one
C33_LastResultNewest ==
    (crun.pc \in {"idle", "failed", "notfound"} /\ page.kind = "list"
        /\ sync.pc \in {"resolved", "loaded", "rendered"}) =>
        \A id \in DOMAIN durTasks :
            getResultsByTask(durResults, id) # {} =>
                /\ Has(durTasks[id], "last_result")
                /\ durTasks[id].last_result.count = NewestOf(id).count
                /\ Has(durTasks[id].last_result, "id") =>
                       durTasks[id].last_result.id = NewestOf(id).id

\* C34: the write-back of a client run leaves every field of the durable
\* record of its task, last_result apart, as the record had it before
C34_RunKeepsEdit ==
    [][(crun.pc = "saved" /\ crun'.pc = "reloading" /\ Has(durTasks, crun.id)) =>
          /\ Has(durTasks', crun.id)
          /\ \A k \in (DOMAIN durTasks[crun.id]) \ {"last_result"} :
                Has(durTasks'[crun.id], k) /\ durTasks'[crun.id][k] = durTasks[crun.id][k]
          /\ (DOMAIN durTasks'[crun.id]) \ {"last_result"} \subseteq DOMAIN durTasks[crun.id]]_vars

\* C35: a step of a client run whose task is no longer in the durable store
\* leaves the store without that task and without a result of it
C35_NoResurrection ==
    [][(crun.pc \in {"fetch", "saved"} /\ crun' # crun /\ ~Has(durTasks, crun.id)) =>
          /\ ~Has(durTasks', crun.id)
          /\ getResultsByTask(durResults', crun.id) = {}]_vars

\* C36: the result a run of the in-memory store appends has the url the
\* engine was called with and the standard and the ignore list of the options
\* it was called with (the name is not handed to the engine)
C36_SnapshotConsistent ==
    [][\A i \in 1..MaxRuns, res \in EngineSamples :
          (SrvRunOk(i, res) /\ srvRuns[i].task \in DOMAIN results) =>
              LET r == srvRuns[i]
                  list == results'[r.task]
                  new == list[Len(list)]
              IN  /\ new.url = r.url
                  /\ new.standard = r.options.standard
                  /\ new.ignore = IF Has(r.options, "ignore") THEN r.options.ignore ELSE <<>>]_vars

\* C37: when a run of the in-memory store settles after its task was removed
\* from the Map, its callback gets an error and the run is over, and the
\* store holds neither a task nor a result list for the id afterwards
C37_RemoveDuringRun ==
    [][\A i \in 1..MaxRuns :
          (i \in DOMAIN srvRuns /\ srvRuns[i].task \notin DOMAIN tasks
              /\ srvRuns' = RemoveAt(srvRuns, i)) =>
              /\ reply' \in {"TypeError", "EngineError"}
              /\ srvRuns[i].task \notin DOMAIN tasks'
              /\ srvRuns[i].task \notin DOMAIN results']_vars

\* an engine call that resolved after the only task was removed has ended in
\* the TypeError of list.push, and both Maps are empty
C37_Witness ==
    /\ reply = "TypeError"
    /\ used # {}
    /\ srvRuns = <<>>
    /\ tasks = Empty /\ results = Empty

\* C38: the tasks Map and the results Map of the in-memory store hold the
\* same ids in every state, and task(id).results answers 'Task not found'
\* exactly when the tasks Map has no entry for id
C38_KeyInvariant ==
    /\ [](DOMAIN tasks = DOMAIN results)
    /\ [][\A id \in TaskIds :
             SrvResults(id) => (reply' = "Task not found" <=> id \notin DOMAIN tasks)]_vars

\* task 1 was removed while task 2, run to its end, has a result; two ids
\* were handed out and a call for a missing id has been answered
C38_Witness ==
    /\ used = {1, 2}
    /\ DOMAIN tasks = {2} /\ DOMAIN results = {2}
    /\ Len(results[2]) >= 1
    /\ reply = "Task not found"

\* the words of a query: its maximal runs of characters that are not blank
RECURSIVE TermsOf(_)
TermsOf(q) ==
    IF q = <<>> THEN {}
    ELSE IF Head(q) = " " THEN TermsOf(Tail(q))
    ELSE LET n == CHOOSE m \in 1..Len(q) :
                      /\ \A j \in 1..m : q[j] # " "
                      /\ (m = Len(q) \/ q[m + 1] = " ")
         IN  {SubSeq(q, 1, n)} \cup TermsOf(SubSeq(q, n + 1, Len(q)))

\* term occurs in keywords, whatever the case of the letters
OccursIn(term, keywords) ==
    \E i \in 0..(Len(keywords) - Len(term)) :
        \A j \in 1..Len(term) : Lower(keywords[i + j]) = Lower(term[j])

\* C39: after a keyup in the filter input every card of the list, rendered
\* by the server or inserted from the durable store, is hidden exactly when
\* the normalised query is not empty and none of its words occurs in the
\* keywords of the card
C39_Filter ==
    [][\A raw \in Queries :
          Keyup(raw) =>
              \A i \in DOMAIN page'.view :
                  page'.view[i].hidden <=>
                      /\ NormaliseQuery(raw) # <<>>
                      /\ \A term \in TermsOf(NormaliseQuery(raw)) :
                            ~OccursIn(term, Keywords(page.view[i]))]_vars

====
